---- MODULE Spec2Model ----
(***************************************************************************)
(* Model of the three-tier batch fetcher of URLtoHTML:                     *)
(*   url_to_html/async_batch_fetcher.py   (async_fetch_batch)              *)
(*   url_to_html/async_decodo_fallback.py (AsyncDecodoFallback)            *)
(*   url_to_html/content_analyzer.py      (ContentAnalyzer)                *)
(* One batch call is one behaviour.  Every action is the code that runs    *)
(* between two awaits of async_fetch_batch; the answers of the static      *)
(* tier, of the renderer pool and of the provider API are chosen with \E.  *)
(* Strings that the code inspects character by character (hosts, skip      *)
(* domains) are sequences of one-character strings; opaque payloads        *)
(* (html bodies, error texts) are TLA+ strings.                            *)
(***************************************************************************)
EXTENDS Integers, Sequences, FiniteSets, TLC

VARIABLES
    urls,                 \* async_fetch_batch argument: the input batch (URL ids)
    config,               \* BatchFetcherConfig of this batch
    env,                  \* process environment: DECODO_* credentials
    pc,                   \* position of async_fetch_batch
    aggregator,           \* ResultAggregator: the records added so far
    js_urls,              \* URLs promoted by phase 1, after the skip filter
    decodo_urls,          \* decodo_direct_urls, later extended by the residuals
    urls_to_process,      \* carry-set of the renderer retry loop
    attempt,              \* number of renderer rounds run so far
    custom_js_successful, \* accepted renderer records
    phase2_results,       \* records returned by the last renderer round
    renderer_calls,       \* history: argument of every custom_js_renderer.process_urls call
    decodo,               \* the AsyncDecodoFallback instance: constructed / contacted flags
    task_map,             \* process_urls: task_id -> url of the submit response, in dict order
    phase3_results,       \* value returned by decodo_fallback.process_urls (empty before)
    final_result,         \* value returned by async_fetch_batch (None before the return)
    replay,               \* a second run of the same batch against the same responses
    api,                  \* the HTTP endpoint POST /api/v1/fetch-batch: request, config, response
    poll,                 \* one call of _poll_task_result: its locals and its requests
    sem,                  \* process_urls: the semaphore and the polling tasks it gathers
    call                  \* one call of a pure function: its argument and the value returned

vars == <<urls, config, env, pc, aggregator, js_urls, decodo_urls, urls_to_process,
          attempt, custom_js_successful, phase2_results, renderer_calls, decodo,
          task_map, phase3_results, final_result, replay, api, poll, sem, call>>

----------------------------------------------------------------------------
(* Bounds of the model *)

MaxUrls == 2        \* longest input batch
MaxRetries == 2     \* largest custom_js_max_retries

----------------------------------------------------------------------------
(* Python values *)

None == "<None>"

\* truth value of an Optional[str]: None and "" are falsy
Truthy(s) == s # None /\ s # ""

Range(s) == {s[i] : i \in 1..Len(s)}

\* [F(x) for x in s]
Map(s, F(_)) == [i \in 1..Len(s) |-> F(s[i])]

----------------------------------------------------------------------------
(* URLs.  A URL is scheme://netloc path with netloc = host[:port]; the     *)
(* batch holds ids into URLTable.                                          *)

Dom == <<"d", ".", "i", "o">>
WwwDot == <<"w", "w", "w", ".">>
Myg == <<"m", "y", "g", ".", "i", "n">>

URLTable == <<
    \* https://a.co/api?q=1
    [host |-> <<"a", ".", "c", "o">>, port |-> <<>>, path |-> <<"/", "q">>],
    \* https://WWW.D.io/p
    [host |-> <<"W", "W", "W", ".", "D", ".", "i", "o">>, port |-> <<>>, path |-> <<"/", "p">>],
    \* https://s.d.io/p
    [host |-> <<"s", ".", "d", ".", "i", "o">>, port |-> <<>>, path |-> <<"/", "p">>],
    \* https://d.io:8/p
    [host |-> <<"d", ".", "i", "o">>, port |-> <<"8">>, path |-> <<"/", "p">>],
    \* https://myg.in/p
    [host |-> Myg, port |-> <<>>, path |-> <<"/", "p">>],
    \* https://www.myg.in/p
    [host |-> WwwDot \o Myg, port |-> <<>>, path |-> <<"/", "p">>],
    \* https://s.myg.in/p
    [host |-> <<"s", ".">> \o Myg, port |-> <<>>, path |-> <<"/", "p">>],
    \* https://myg.in:8/p
    [host |-> Myg, port |-> <<"8">>, path |-> <<"/", "p">>],
    \* https://a.co/myg.in
    [host |-> <<"a", ".", "c", "o">>, port |-> <<>>, path |-> <<"/">> \o Myg],
    \* https://a.co/?u=myg.in
    [host |-> <<"a", ".", "c", "o">>, port |-> <<>>, path |-> <<"/", "?", "u", "=">> \o Myg],
    \* https://xmyg.in/p
    [host |-> <<"x">> \o Myg, port |-> <<>>, path |-> <<"/", "p">>],
    \* https://myg.in.co/p
    [host |-> Myg \o <<".", "c", "o">>, port |-> <<>>, path |-> <<"/", "p">>]
>>

\* the URLs the batches are made of
UrlIds == 1..4

\* urlparse(url).netloc
Netloc(u) == IF u.port = <<>> THEN u.host ELSE u.host \o <<":">> \o u.port

LowerChar(c) == CASE c = "W" -> "w" [] c = "D" -> "d" [] OTHER -> c

\* str.lower()
Lower(s) == [i \in 1..Len(s) |-> LowerChar(s[i])]

\* str.startswith / str.endswith
StartsWith(s, p) == Len(s) >= Len(p) /\ SubSeq(s, 1, Len(p)) = p
EndsWith(s, p) == Len(s) >= Len(p) /\ SubSeq(s, Len(s) - Len(p) + 1, Len(s)) = p

_extract_hostname(id) ==
    LET parsed == URLTable[id]
        hostname == Lower(IF Netloc(parsed) # <<>> THEN Netloc(parsed) ELSE parsed.path)
    IN  IF StartsWith(hostname, WwwDot) THEN SubSeq(hostname, 5, Len(hostname)) ELSE hostname

_should_skip_custom_js(id, excluded_domains) ==
    IF excluded_domains = <<>> THEN FALSE
    ELSE LET hostname == _extract_hostname(id)
         IN  \E k \in 1..Len(excluded_domains) :
                 \/ hostname = excluded_domains[k]
                 \/ EndsWith(hostname, <<".">> \o excluded_domains[k])

----------------------------------------------------------------------------
(* Html bodies are opaque tokens; the classifier sees only their class.    *)

Article == "<html>article</html>"        \* real content
Loading == "<html>loading</html>"        \* skeleton for the static-tier verdict
NoResults == "<html>no results</html>"   \* skeleton for the renderer-tier verdict

\* ContentAnalyzer.is_blocked
is_blocked(status_code) == 400 <= status_code /\ status_code < 600

\* ContentAnalyzer.is_skeleton_content: first component of the returned pair
is_skeleton_content(html_content) ==
    IF ~Truthy(html_content) THEN TRUE
    ELSE html_content = Loading

\* ContentAnalyzer.should_fallback: first component of the returned pair
should_fallback(html_content, status_code) ==
    IF is_blocked(status_code) THEN TRUE
    ELSE IF html_content = None THEN TRUE
    ELSE is_skeleton_content(html_content)

\* `domain in url_lower`
Contains(s, p) == \E i \in 1..(Len(s) - Len(p) + 1) : SubSeq(s, i, i + Len(p) - 1) = p

\* the url string of a URL
UrlString(u) == <<"h", "t", "t", "p", "s", ":", "/", "/">> \o Netloc(u) \o u.path

\* lines 179-197, one of its seventeen domains
whitelisted_domains == <<Myg>>

\* lines 198-204: some whitelisted domain occurs in the lower-cased url
InWhitelist(u) ==
    \E k \in 1..Len(whitelisted_domains) : Contains(Lower(UrlString(u)), whitelisted_domains[k])

\* ContentAnalyzer.is_custom_js_skeleton: first component of the returned pair
is_custom_js_skeleton(html, id) ==
    IF ~Truthy(html) THEN TRUE
    ELSE IF InWhitelist(URLTable[id]) THEN FALSE
    ELSE html \in {Loading, NoResults}

----------------------------------------------------------------------------
(* Result aggregator: append-only list of records.                         *)

Rec(u, h, m, st, e) == [url |-> u, html |-> h, method |-> m, status |-> st, error |-> e]

\* ResultAggregator.add_result
add_result(agg, u, h, m, st, e) == Append(agg, Rec(u, h, m, st, e))

\* one add_result call per record of recs, in order
RECURSIVE AddAll(_, _)
AddAll(agg, recs) ==
    IF recs = <<>> THEN agg
    ELSE LET r == Head(recs)
         IN  AddAll(add_result(agg, r.url, r.html, r.method, r.status, r.error), Tail(recs))

Count(s, P(_)) == Cardinality({i \in 1..Len(s) : P(s[i])})

\* ResultAggregator.get_final_result: {results, summary}
get_final_result(agg, total_time) ==
    [results |-> agg,
     summary |-> [total |-> Len(agg),
                  success |-> Count(agg, LAMBDA r : r.status = "success"),
                  failed |-> Count(agg, LAMBDA r : r.status = "failed"),
                  total_time |-> total_time]]

NoResult ==
    [results |-> <<>>, summary |-> [total |-> -1, success |-> -1, failed |-> -1, total_time |-> -1]]

\* time.time() - start_time: the wall-clock readings the model lets a batch take
Elapsed == {1, 2}

----------------------------------------------------------------------------
(* Phase 1: static tier.  AsyncStaticXHRProcessor.process_batch returns    *)
(* one record per input URL, in input order.                               *)

\* what one GET can come back with: status code and body (None: timeout / transport error)
StaticResponses ==
    { [status_code |-> 200, html |-> Article],
      [status_code |-> 200, html |-> Loading],
      [status_code |-> 200, html |-> ""],
      [status_code |-> 403, html |-> Article],
      [status_code |-> 0,   html |-> None] }

\* method label of the static tier, a fixed function of the URL
StaticMethod(id) == IF URLTable[id].path = <<"/", "q">> THEN "xhr" ELSE "static"

\* AsyncStaticXHRProcessor.process_batch
process_batch(us, resp) ==
    [i \in 1..Len(us) |->
        [url |-> us[i], html |-> resp[i].html, status_code |-> resp[i].status_code,
         method |-> StaticMethod(us[i]),
         needs_js |-> should_fallback(resp[i].html, resp[i].status_code)]]

----------------------------------------------------------------------------
(* Phase 2: renderer pool.  AsyncMultiServiceJSRenderer.process_urls       *)
(* returns one record {url, html, status, error} per URL it was given.     *)

RenderOutcomes ==
    { [html |-> Article,   status |-> "success", error |-> None],
      [html |-> NoResults, status |-> "success", error |-> None],
      [html |-> None,      status |-> "failed",  error |-> "render failed"] }

\* AsyncMultiServiceJSRenderer.process_urls
renderer_process_urls(us, out) ==
    [i \in 1..Len(us) |->
        [url |-> us[i], html |-> out[i].html, status |-> out[i].status, error |-> out[i].error]]

\* a loop that accepts every record with status success
Accepted_NoSkeletonCheck(result) == result.status = "success"

\* lines 203-231: is this returned record accepted as a custom_js success?
Accepted(result) ==
    /\ result.status = "success"
    /\ ~(Truthy(result.html) /\ is_custom_js_skeleton(result.html, result.url))

----------------------------------------------------------------------------
(* Phase 3: provider polling client (AsyncDecodoFallback).                 *)
(* Task ids are positive integers; 0 stands for an absent id or url.       *)

\* DECODO_BASIC_AUTH_TOKEN or DECODO_USERNAME and DECODO_PASSWORD are set
HasCredentials(e) == e.basic_auth_token \/ (e.username /\ e.password)

\* a client that prefers the username and password over the token
_get_auth_header_UserPassFirst(e) ==
    IF e.username /\ e.password THEN "Basic b64(username:password)"
    ELSE IF e.basic_auth_token THEN "Basic <token>"
    ELSE "<JSRenderError>"

\* AsyncDecodoFallback._get_auth_header: the Authorization header value
_get_auth_header(e) ==
    IF e.basic_auth_token THEN "Basic <token>"
    ELSE IF e.username /\ e.password THEN "Basic b64(username:password)"
    ELSE "<JSRenderError>"

\* Python's `a or b` on ids
OrId(a, b) == IF a # 0 THEN a ELSE b

NoEntry == [is_dict |-> TRUE, id |-> 0, task_id |-> 0, query_id |-> 0, url |-> 0, query |-> 0, str |-> 0]

\* a JSON body without any of the fields the client looks at
EmptyResponse ==
    [is_dict |-> TRUE, has_error |-> FALSE, error |-> None,
     has_queries |-> FALSE, queries |-> <<>>, has_tasks |-> FALSE, tasks |-> <<>>,
     id |-> 0, has_url |-> FALSE, url |-> 0, items |-> <<>>]

\* _submit_batch: the dict returned on non-200, timeout or transport error
SubmitError(msg) == [EmptyResponse EXCEPT !.has_error = TRUE, !.error = msg]

\* task_map[k] = v on an insertion-ordered dict
DictSet(m, k, v) ==
    IF \E i \in 1..Len(m) : m[i].tid = k
    THEN [i \in 1..Len(m) |-> IF m[i].tid = k THEN [tid |-> k, url |-> v] ELSE m[i]]
    ELSE Append(m, [tid |-> k, url |-> v])

\* lines 206-215: the loop over task_entries
RECURSIVE BuildTaskMap(_, _)
BuildTaskMap(entries, m) ==
    IF entries = <<>> THEN m
    ELSE LET entry == Head(entries)
             tid == OrId(entry.id, OrId(entry.task_id, entry.query_id))
             url_field == OrId(entry.url, entry.query)
             m1 == IF entry.is_dict
                   THEN (IF tid # 0 THEN DictSet(m, tid, url_field) ELSE m)
                   ELSE DictSet(m, entry.str, 0)
         IN  BuildTaskMap(Tail(entries), m1)

\* a parser that looks at tasks before queries
_extract_task_ids_TasksFirst(batch_response) ==
    LET task_entries ==
            IF batch_response.is_dict
            THEN IF batch_response.has_tasks THEN batch_response.tasks
                 ELSE IF batch_response.has_queries THEN batch_response.queries
                 ELSE IF batch_response.id # 0 /\ batch_response.has_url
                      THEN <<[NoEntry EXCEPT !.id = batch_response.id, !.url = batch_response.url]>>
                      ELSE <<>>
            ELSE batch_response.items
    IN  BuildTaskMap(task_entries, <<>>)

\* AsyncDecodoFallback._extract_task_ids
_extract_task_ids(batch_response) ==
    LET task_entries ==
            IF batch_response.is_dict
            THEN IF batch_response.has_queries THEN batch_response.queries
                 ELSE IF batch_response.has_tasks THEN batch_response.tasks
                 ELSE IF batch_response.id # 0 /\ batch_response.has_url
                      THEN <<[NoEntry EXCEPT !.id = batch_response.id, !.url = batch_response.url]>>
                      ELSE <<>>
            ELSE batch_response.items
    IN  BuildTaskMap(task_entries, <<>>)

\* the last response of one task's polling, as far as the returned record depends on it
PollEvents ==
    { [kind |-> "done", html |-> Article],
      [kind |-> "done", html |-> ""],
      [kind |-> "task_failed", html |-> None],
      [kind |-> "exception", html |-> None],
      [kind |-> "timeout", html |-> None] }

\* a client that takes every completed task for a success
_poll_task_result_NoHtmlCheck(task_id, original_url, ev) ==
    IF ev.kind = "done"
    THEN [url |-> original_url, html |-> ev.html, status |-> "success", error |-> None]
    ELSE [url |-> original_url, html |-> None, status |-> "failed",
          error |-> "Polling timeout: task did not complete"]

\* AsyncDecodoFallback._poll_task_result: the record returned for the terminal event ev
_poll_task_result(task_id, original_url, ev) ==
    IF ev.kind = "task_failed"
    THEN [url |-> original_url, html |-> None, status |-> "failed",
          error |-> "Decodo task failed: Task failed (no error message)"]
    ELSE IF ev.kind = "done"
    THEN IF Truthy(ev.html)
         THEN [url |-> original_url, html |-> ev.html, status |-> "success", error |-> None]
         ELSE [url |-> original_url, html |-> None, status |-> "failed",
               error |-> "Task completed but response contains no HTML content"]
    ELSE IF ev.kind = "exception"
    THEN [url |-> original_url, html |-> None, status |-> "failed",
          error |-> "Unexpected error: malformed response"]
    ELSE [url |-> original_url, html |-> None, status |-> "failed",
          error |-> "Polling timeout: task did not complete"]

\* an early return that fails the first URL of the batch only
AllFailed_FirstOnly(us, msg) ==
    [i \in 1..(IF us = <<>> THEN 0 ELSE 1) |->
        [url |-> us[i], html |-> None, status |-> "failed", error |-> msg]]

\* [failed record for url in urls]
AllFailed(us, msg) ==
    [i \in 1..Len(us) |-> [url |-> us[i], html |-> None, status |-> "failed", error |-> msg]]

\* a lookup that pairs a task without url with the input URL at its position
UrlToTaskIndex_ByPosition(tm, u) ==
    LET hits == {i \in 1..Len(tm) :
                    \/ tm[i].url # 0 /\ tm[i].url = u
                    \/ tm[i].url = 0 /\ i <= Len(decodo_urls) /\ decodo_urls[i] = u}
    IN  IF hits = {} THEN 0 ELSE CHOOSE i \in hits : \A j \in hits : j <= i

\* url_to_task_id.get(url): the last task of task_map whose url field is url
UrlToTaskIndex(tm, u) ==
    LET hits == {i \in 1..Len(tm) : tm[i].url # 0 /\ tm[i].url = u}
    IN  IF hits = {} THEN 0 ELSE CHOOSE i \in hits : \A j \in hits : j <= i

\* asyncio.gather(*poll_tasks, return_exceptions=True): one entry per task of
\* task_map, in dict order.  _poll_task_result catches every Exception of its
\* loop (lines 456-463), so no entry of the gather is an exception object.
gather(tm, ev) ==
    [k \in 1..Len(tm) |->
        [is_exception |-> FALSE, str |-> "",
         value |-> _poll_task_result(tm[k].tid, tm[k].url, ev[k])]]

\* a client that returns the records of the polled tasks and drops the other URLs
processed_results_TasksOnly(us, tm, results) ==
    LET kept == SelectSeq(us, LAMBDA u : UrlToTaskIndex(tm, u) # 0)
    IN  [i \in 1..Len(kept) |->
            [results[UrlToTaskIndex(tm, kept[i])].value EXCEPT !.url = kept[i]]]

\* process_urls lines 568-595: the final list, one record per input URL
processed_results(us, tm, results) ==
    [i \in 1..Len(us) |->
        LET k == UrlToTaskIndex(tm, us[i])
        IN  IF k # 0
            THEN IF results[k].is_exception
                 THEN [url |-> us[i], html |-> None, status |-> "failed",
                       error |-> results[k].str]
                 ELSE [results[k].value EXCEPT !.url = us[i]]
            ELSE [url |-> us[i], html |-> None, status |-> "failed",
                  error |-> "No task ID assigned for this URL"]]

\* the submit responses the model lets the provider give for the batch us
MappedEntries(us) == [i \in 1..Len(us) |-> [NoEntry EXCEPT !.id = i, !.url = us[i]]]
StringEntries(us) == [i \in 1..Len(us) |-> [NoEntry EXCEPT !.is_dict = FALSE, !.str = i]]

SubmitResponses(us) ==
    { SubmitError("Request timeout"),
      EmptyResponse,
      [EmptyResponse EXCEPT !.has_queries = TRUE, !.queries = MappedEntries(us)],
      [EmptyResponse EXCEPT !.has_queries = TRUE, !.queries = SubSeq(MappedEntries(us), 1, IF us = <<>> THEN 0 ELSE 1)],
      [EmptyResponse EXCEPT !.is_dict = FALSE, !.items = StringEntries(us)] }

----------------------------------------------------------------------------
(* async_fetch_batch *)

\* the batches of the model: 1..MaxUrls distinct URLs, in any order
Batches ==
    UNION { {b \in [1..n -> UrlIds] : \A i, j \in 1..n : b[i] = b[j] => i = j} : n \in 1..MaxUrls }

Configs ==
    [decodo_enabled : BOOLEAN,
     custom_js_max_retries : 0..MaxRetries,
     custom_js_skip_domains : {<<>>, <<Dom>>}]

Envs ==
    { [basic_auth_token |-> FALSE, username |-> FALSE, password |-> FALSE],
      [basic_auth_token |-> TRUE,  username |-> FALSE, password |-> FALSE],
      [basic_auth_token |-> FALSE, username |-> TRUE,  password |-> TRUE],
      [basic_auth_token |-> TRUE,  username |-> TRUE,  password |-> TRUE] }

\* the AsyncDecodoFallback instance before its construction
NoClient ==
    [constructed |-> FALSE, contacted |-> FALSE, submit_auth |-> None, poll_auth |-> None,
     batch_response |-> EmptyResponse]

\* no second run: the batch runs once
NoReplay ==
    [run |-> 1, resp |-> <<>>, outs |-> <<>>, submit |-> <<>>, evs |-> <<>>, first |-> NoResult]

\* the endpoint and the polling call are not part of this specification
NoApi == [pc |-> "idle"]
NoPoll == [pc |-> "idle"]
NoSem == [pc |-> "idle"]
NoCall == [pc |-> "idle"]

Init ==
    /\ urls \in Batches
    /\ config \in Configs
    /\ env \in Envs
    /\ pc = "start"
    /\ aggregator = <<>>
    /\ js_urls = <<>>
    /\ decodo_urls = <<>>
    /\ urls_to_process = <<>>
    /\ attempt = 0
    /\ custom_js_successful = <<>>
    /\ phase2_results = <<>>
    /\ renderer_calls = <<>>
    /\ decodo = NoClient
    /\ task_map = <<>>
    /\ phase3_results = <<>>
    /\ final_result = NoResult
    /\ replay = NoReplay
    /\ api = NoApi
    /\ poll = NoPoll
    /\ sem = NoSem
    /\ call = NoCall

\* lines 135-143: the phase-1 successes as aggregator records
StaticRecords(successful_urls) ==
    Map(successful_urls, LAMBDA r : Rec(r.url, r.html, r.method, "success", None))

\* lines 247-255: the accepted renderer records as aggregator records
CustomJsRecords(succ) ==
    Map(succ, LAMBDA r : Rec(r.url, r.html, "custom_js", "success", None))

\* lines 264-272 and 278-286: the failed records of the last renderer round
CustomJsFailedRecords(p2) ==
    Map(SelectSeq(p2, LAMBDA r : r.status = "failed"),
        LAMBDA r : Rec(r.url, None, "custom_js", "failed", r.error))

\* an orchestrator that forgets the URLs routed by the skip list
DisabledRecords_ResidualsOnly(dq) ==
    Map(SelectSeq(dq, LAMBDA u : \E k \in 1..Len(renderer_calls) : u \in Range(renderer_calls[k])),
        LAMBDA u : Rec(u, None, "decodo", "failed", "Decodo fallback disabled"))

\* lines 288-295: the records emitted when the fallback is disabled
DisabledRecords(dq) ==
    Map(dq, LAMBDA u : Rec(u, None, "decodo", "failed", "Decodo fallback disabled"))

\* line 325: method label of a phase-3 record
Phase3Method(result) == IF result.status = "success" THEN "decodo" ELSE "custom_js"

\* lines 321-328: the phase-3 records as aggregator records
DecodoRecords(p3) ==
    Map(p3, LAMBDA r : Rec(r.url, r.html, Phase3Method(r), r.status, r.error))

\* AsyncDecodoFallback.__init__ lines 90-97: raises JSRenderError
ConstructorRaises(e) == ~(e.basic_auth_token \/ (e.username /\ e.password))

\* a report whose records depend on the time the batch took
Return_TimedRecords(agg) ==
    /\ pc' = "done"
    /\ aggregator' = agg
    /\ \E total_time \in Elapsed :
           final_result' =
               get_final_result(
                   [i \in 1..Len(agg) |->
                       [agg[i] EXCEPT !.error = IF total_time = 1 THEN @ ELSE "slow"]],
                   total_time)

\* return aggregator.get_final_result(total_time)
Return(agg) ==
    /\ pc' = "done"
    /\ aggregator' = agg
    /\ \E total_time \in Elapsed : final_result' = get_final_result(agg, total_time)

\* an orchestrator that constructs the provider client before it looks at the residual
AfterRender_EagerClient(agg, succ, p2, dq) ==
    LET agg1 == AddAll(agg, CustomJsRecords(succ)) IN
    /\ decodo_urls' = dq
    /\ task_map' = task_map
    /\ IF config.decodo_enabled /\ ConstructorRaises(env)
       THEN /\ pc' = "raised"
            /\ aggregator' = agg1
            /\ UNCHANGED <<final_result, decodo, phase3_results>>
       ELSE IF dq = <<>>
       THEN /\ Return(AddAll(agg1, CustomJsFailedRecords(p2)))
            /\ decodo' = [NoClient EXCEPT !.constructed = config.decodo_enabled]
            /\ UNCHANGED phase3_results
       ELSE IF ~config.decodo_enabled
       THEN Return(AddAll(AddAll(agg1, CustomJsFailedRecords(p2)), DisabledRecords(dq)))
            /\ UNCHANGED <<decodo, phase3_results>>
       ELSE IF ~HasCredentials(env)
       THEN /\ Return(AddAll(agg1, DecodoRecords(AllFailed(dq, "Decodo credentials not configured"))))
            /\ decodo' = [NoClient EXCEPT !.constructed = TRUE]
            /\ phase3_results' = AllFailed(dq, "Decodo credentials not configured")
       ELSE /\ pc' = "decodo_submit"
            /\ aggregator' = agg1
            /\ decodo' = [NoClient EXCEPT !.constructed = TRUE, !.contacted = TRUE,
                                          !.submit_auth = _get_auth_header(env)]
            /\ UNCHANGED <<final_result, phase3_results>>

\* lines 242-318: from the end of the renderer loop to the return or to the provider submit
AfterRender(agg, succ, p2, dq) ==
    LET agg1 == AddAll(agg, CustomJsRecords(succ)) IN
    /\ decodo_urls' = dq
    /\ task_map' = task_map
    /\ IF dq = <<>>
       THEN Return(AddAll(agg1, CustomJsFailedRecords(p2))) /\ UNCHANGED <<decodo, phase3_results>>
       ELSE IF ~config.decodo_enabled
       THEN Return(AddAll(AddAll(agg1, CustomJsFailedRecords(p2)), DisabledRecords(dq)))
            /\ UNCHANGED <<decodo, phase3_results>>
       ELSE IF ConstructorRaises(env)
       THEN /\ pc' = "raised"
            /\ aggregator' = agg1
            /\ UNCHANGED <<final_result, decodo, phase3_results>>
       ELSE IF ~HasCredentials(env)
       THEN /\ Return(AddAll(agg1, DecodoRecords(AllFailed(dq, "Decodo credentials not configured"))))
            /\ decodo' = [NoClient EXCEPT !.constructed = TRUE]
            /\ phase3_results' = AllFailed(dq, "Decodo credentials not configured")
       ELSE /\ pc' = "decodo_submit"
            /\ aggregator' = agg1
            /\ decodo' = [NoClient EXCEPT !.constructed = TRUE, !.contacted = TRUE,
                                          !.submit_auth = _get_auth_header(env)]
            /\ UNCHANGED <<final_result, phase3_results>>

\* a loop bound that lets one round too many run
LoopContinues_OffByOne(carry, rounds_done, max_retries) ==
    carry # <<>> /\ rounds_done <= max_retries

\* lines 191-193 and 236-240: does `for attempt in range(1, max_retries + 1)` run another
\* round, rounds_done rounds having run and carry being urls_to_process?
LoopContinues(carry, rounds_done, max_retries) ==
    carry # <<>> /\ rounds_done + 1 <= max_retries

\* an orchestrator that submits to the provider while a renderer round is running
StartRound_AlongsideProvider(carry) ==
    /\ pc' = "render"
    /\ urls_to_process' = carry
    /\ attempt' = attempt + 1
    /\ renderer_calls' = Append(renderer_calls, carry)
    /\ decodo' = [decodo EXCEPT !.contacted = TRUE]
    /\ UNCHANGED <<task_map, phase3_results, final_result>>

\* lines 191-198: the next round of the loop awaits js_renderer.process_urls(carry)
StartRound(carry) ==
    /\ pc' = "render"
    /\ urls_to_process' = carry
    /\ attempt' = attempt + 1
    /\ renderer_calls' = Append(renderer_calls, carry)
    /\ UNCHANGED <<decodo, task_map, phase3_results, final_result>>

\* lines 99-198: phase 1, the skip filter, and the code up to the next await
Phase1(resp) ==
    /\ pc = "start"
    /\ LET phase1_results == process_batch(urls, resp)
           successful_urls == SelectSeq(phase1_results, LAMBDA r : ~r.needs_js)
           promoted == Map(SelectSeq(phase1_results, LAMBDA r : r.needs_js), LAMBDA r : r.url)
           skip == config.custom_js_skip_domains
           decodo_direct_urls ==
               IF skip # <<>>
               THEN SelectSeq(promoted, LAMBDA u : _should_skip_custom_js(u, skip))
               ELSE <<>>
           filtered ==
               IF skip # <<>>
               THEN SelectSeq(promoted, LAMBDA u : ~_should_skip_custom_js(u, skip))
               ELSE promoted
           agg == AddAll(aggregator, StaticRecords(successful_urls))
       IN  /\ js_urls' = filtered
           /\ custom_js_successful' = <<>>
           /\ phase2_results' = <<>>
           /\ IF filtered = <<>> /\ decodo_direct_urls = <<>>
              THEN /\ Return(agg)
                   /\ UNCHANGED <<decodo_urls, urls_to_process, attempt, renderer_calls,
                                  decodo, task_map, phase3_results>>
              ELSE IF LoopContinues(filtered, 0, config.custom_js_max_retries)
              THEN /\ StartRound(filtered)
                   /\ aggregator' = agg
                   /\ decodo_urls' = decodo_direct_urls
              ELSE /\ AfterRender(agg, <<>>, <<>>, decodo_direct_urls \o filtered)
                   /\ urls_to_process' = filtered
                   /\ UNCHANGED <<attempt, renderer_calls>>
    /\ UNCHANGED <<urls, config, env>>

\* lines 198-240: one renderer round returns; the loop goes on or ends
RenderRound(out) ==
    /\ pc = "render"
    /\ LET results == renderer_process_urls(urls_to_process, out)
           succ == custom_js_successful \o SelectSeq(results, Accepted)
           retry_urls == Map(SelectSeq(results, LAMBDA r : ~Accepted(r)), LAMBDA r : r.url)
       IN  /\ phase2_results' = results
           /\ custom_js_successful' = succ
           /\ IF LoopContinues(retry_urls, attempt, config.custom_js_max_retries)
              THEN /\ StartRound(retry_urls)
                   /\ UNCHANGED <<aggregator, decodo_urls>>
              ELSE /\ AfterRender(aggregator, succ, results, decodo_urls \o retry_urls)
                   /\ urls_to_process' = retry_urls
                   /\ UNCHANGED <<attempt, renderer_calls>>
    /\ UNCHANGED <<urls, config, env, js_urls>>

\* process_urls lines 513-560: the submit response arrives; fail all, or start polling
DecodoSubmit(batch_response) ==
    /\ pc = "decodo_submit"
    /\ LET tm == _extract_task_ids(batch_response)
       IN  IF batch_response.is_dict /\ batch_response.has_error
           THEN /\ Return(AddAll(aggregator, DecodoRecords(AllFailed(decodo_urls, batch_response.error))))
                /\ phase3_results' = AllFailed(decodo_urls, batch_response.error)
                /\ decodo' = [decodo EXCEPT !.batch_response = batch_response]
                /\ UNCHANGED task_map
           ELSE IF tm = <<>>
           THEN /\ Return(AddAll(aggregator, DecodoRecords(
                        AllFailed(decodo_urls, "No task IDs received from batch submission"))))
                /\ phase3_results' =
                       AllFailed(decodo_urls, "No task IDs received from batch submission")
                /\ decodo' = [decodo EXCEPT !.batch_response = batch_response]
                /\ UNCHANGED task_map
           ELSE /\ pc' = "decodo_poll"
                /\ task_map' = tm
                /\ decodo' = [decodo EXCEPT !.poll_auth = _get_auth_header(env),
                                            !.batch_response = batch_response]
                /\ UNCHANGED <<aggregator, phase3_results, final_result>>
    /\ UNCHANGED <<urls, config, env, js_urls, decodo_urls, urls_to_process, attempt,
                   custom_js_successful, phase2_results, renderer_calls>>

\* process_urls lines 560-601 and async_fetch_batch lines 320-354: every poll has ended
DecodoGather(ev) ==
    /\ pc = "decodo_poll"
    /\ LET results == processed_results(decodo_urls, task_map, gather(task_map, ev))
       IN  /\ phase3_results' = results
           /\ Return(AddAll(aggregator, DecodoRecords(results)))
    /\ UNCHANGED <<urls, config, env, js_urls, decodo_urls, urls_to_process, attempt,
                   custom_js_successful, phase2_results, renderer_calls, decodo, task_map>>

Next ==
    \/ \E resp \in [1..Len(urls) -> StaticResponses] :
           Phase1(resp) /\ UNCHANGED <<replay, api, poll, sem, call>>
    \/ \E out \in [1..Len(urls_to_process) -> RenderOutcomes] :
           RenderRound(out) /\ UNCHANGED <<replay, api, poll, sem, call>>
    \/ \E batch_response \in SubmitResponses(decodo_urls) :
           DecodoSubmit(batch_response) /\ UNCHANGED <<replay, api, poll, sem, call>>
    \/ \E ev \in [1..Len(task_map) -> PollEvents] :
           DecodoGather(ev) /\ UNCHANGED <<replay, api, poll, sem, call>>

Spec == Init /\ [][Next]_vars

----------------------------------------------------------------------------
(* Properties *)

Results == final_result.results

\* the records of the final output that carry URL u
RecordsOf(u) == {i \in 1..Len(Results) : Results[i].url = u}

FailedRecordsOf(u) == {i \in RecordsOf(u) : Results[i].status = "failed"}

\* the host of URL id, compared case-insensitively, is D or a subdomain of D
HostIn(id, D) ==
    LET h == Lower(URLTable[id].host)
    IN  h = D \/ EndsWith(h, <<".">> \o D)

OnSkipList(id) ==
    \E k \in 1..Len(config.custom_js_skip_domains) : HostIn(id, config.custom_js_skip_domains[k])

\* C1: the report of a finished batch holds exactly one record per input URL,
\* len(results) == len(urls), whichever tiers answered and whether or not the
\* provider tier is enabled.
C1_OneRecordPerUrl ==
    pc = "done" => Len(Results) = Len(urls)

\* C2: the i-th record of the report is the record of the i-th input URL,
\* results[i].url == urls[i], whichever tier resolved each URL.
C2_InputOrder ==
    pc = "done" =>
        \A i \in 1..Len(urls) : i <= Len(Results) => Results[i].url = urls[i]

C4_NoDecodoMethodWhenDisabled ==
    (pc = "done" /\ ~config.decodo_enabled) =>
        \A i \in 1..Len(Results) : Results[i].method # "decodo"

\* C5: a URL whose host is a skip-list domain D or ends with ".D" is in no call
\* to the renderer pool, in no round; once the static tier has promoted it, it
\* is in the provider tier's input.
C5_SkipListNeverRendered ==
    /\ \A k \in 1..Len(renderer_calls) : \A u \in Range(renderer_calls[k]) : ~OnSkipList(u)
    /\ pc \notin {"start", "render"} =>
           \A u \in Range(urls) :
               (OnSkipList(u) /\ \A i \in 1..Len(aggregator) :
                                     ~(aggregator[i].url = u /\ aggregator[i].method \in {"static", "xhr"}))
                   => u \in Range(decodo_urls)

\* C6: with the provider tier enabled, no credentials configured and residual
\* URLs, the batch call still returns its report: no exception escapes it.
C6_NoExceptionEscapes ==
    (config.decodo_enabled /\ ~HasCredentials(env)) => pc # "raised"

\* C7: a URL that was submitted to the provider tier and failed there is
\* recorded with method "decodo", never "custom_js".
C7_ProviderFailureAttributed ==
    (pc = "done" /\ decodo.contacted) =>
        \A i \in 1..Len(Results) :
            (Results[i].url \in Range(decodo_urls) /\ Results[i].status = "failed")
                => Results[i].method = "decodo"

\* C8: the renderer pool is called at most custom_js_max_retries times in a
\* batch, never with an empty carry-set, and once the loop is over with rounds
\* to spare the carry-set is empty: the loop stopped at the first empty carry.
C8_RetryLoopBounded ==
    /\ Len(renderer_calls) <= config.custom_js_max_retries
    /\ attempt = Len(renderer_calls)
    /\ \A k \in 1..Len(renderer_calls) : renderer_calls[k] # <<>>
    /\ (pc = "render") => urls_to_process # <<>>
    /\ (pc \notin {"start", "render"} /\ 0 < Len(renderer_calls)
            /\ Len(renderer_calls) < config.custom_js_max_retries)
         => urls_to_process = <<>>

\* C8 witness: all rounds were used and URLs are still unresolved
C8_Witness ==
    /\ pc \notin {"start", "render"}
    /\ config.custom_js_max_retries >= 2
    /\ Len(renderer_calls) = config.custom_js_max_retries
    /\ urls_to_process # <<>>

C10_OneFailedRecordWithError ==
    pc = "done" =>
        /\ \A i \in 1..Len(Results) : Results[i].status = "failed" => Truthy(Results[i].error)
        /\ \A u \in Range(urls) : Cardinality(FailedRecordsOf(u)) <= 1

\* C11: no failure of one URL at any tier is fatal to the batch: the batch call
\* never ends in an exception, and the report of a finished batch holds a
\* record for every input URL, the failed ones included.
C11_NoPerUrlErrorFatal ==
    /\ pc # "raised"
    /\ pc = "done" => \A u \in Range(urls) : RecordsOf(u) # {}

----------------------------------------------------------------------------
(* The HTTP endpoint POST /api/v1/fetch-batch (api/main.py, api/models.py). *)
(* One request is one behaviour of ApiSpec: the request is validated and    *)
(* the handler builds the batch configuration and awaits async_fetch_batch; *)
(* then the batch returns or raises and the response is built.              *)

MinItems == 1
MaxItems == 10000

\* Optional[T]: <<>> is None (an absent field), <<v>> the value v
Absent == <<>>

\* entries of the urls list, by what pydantic's HttpUrl looks at:
\* "https://a.co/q", "ftp://a.co/q", "not a url"
HttpsEntry == [scheme |-> "https", has_host |-> TRUE]
FtpEntry == [scheme |-> "ftp", has_host |-> TRUE]
PlainEntry == [scheme |-> "", has_host |-> FALSE]
UrlEntries == {HttpsEntry, FtpEntry, PlainEntry}

\* pydantic HttpUrl: an absolute http or https URL with a host
IsHttpUrl(e) == e.scheme \in {"http", "https"} /\ e.has_host

\* pydantic str: every JSON string
IsStr(e) == TRUE

\* Union[HttpUrl, str]: the entry passes if one member of the union accepts it
ValidEntry(e) == IsHttpUrl(e) \/ IsStr(e)

\* the urls lists of the model: n entries, of the kinds in kinds
RequestUrls ==
    {[n |-> 0, kinds |-> {}]}
        \cup {[n |-> 1, kinds |-> {k}] : k \in UrlEntries}
        \cup {[n |-> 2, kinds |-> K] : K \in (SUBSET UrlEntries) \ {{}}}
        \cup {[n |-> MaxItems, kinds |-> {HttpsEntry}], [n |-> MaxItems + 1, kinds |-> {HttpsEntry}]}

Fields ==
    {"static_xhr_concurrency", "static_xhr_timeout", "custom_js_service_endpoints",
     "custom_js_batch_size", "custom_js_cooldown_seconds", "custom_js_timeout",
     "custom_js_max_retries", "custom_js_skip_domains", "decodo_enabled", "decodo_timeout",
     "min_content_length", "min_text_length", "save_outputs", "enable_logging"}

\* the fields fetch_batch merges with `if req.f is not None ... else APIConfig.DEFAULT_f`
SimpleFields == Fields \ {"custom_js_service_endpoints", "custom_js_skip_domains"}

\* two sets of values a request can carry, all inside the ranges of BatchRequestConfig
RequestValuesA ==
    [static_xhr_concurrency |-> 7, static_xhr_timeout |-> 8,
     custom_js_service_endpoints |-> <<"svc.request">>,
     custom_js_batch_size |-> 9, custom_js_cooldown_seconds |-> 0, custom_js_timeout |-> 31,
     custom_js_max_retries |-> 3, custom_js_skip_domains |-> <<Dom>>,
     decodo_enabled |-> FALSE, decodo_timeout |-> 32,
     min_content_length |-> 5000, min_text_length |-> 60,
     save_outputs |-> TRUE, enable_logging |-> FALSE]

RequestValuesB ==
    [RequestValuesA EXCEPT !.custom_js_service_endpoints = <<>>, !.custom_js_skip_domains = <<>>,
                           !.decodo_enabled = TRUE, !.save_outputs = FALSE,
                           !.enable_logging = TRUE]

AllAbsent == [f \in Fields |-> Absent]
AllPresent(V) == [f \in Fields |-> <<V[f]>>]

\* request.config: absent, or an object with no, one, all but one or all fields,
\* or an object with a field out of its range
RequestConfigs ==
    {Absent, <<AllAbsent>>, <<[AllAbsent EXCEPT !.custom_js_max_retries = <<0>>]>>}
        \cup {<<AllPresent(V)>> : V \in {RequestValuesA, RequestValuesB}}
        \cup {<<[AllAbsent EXCEPT ![f] = <<V[f]>>]>> :
                  f \in Fields, V \in {RequestValuesA, RequestValuesB}}
        \cup {<<[AllPresent(V) EXCEPT ![f] = Absent]>> :
                  f \in Fields, V \in {RequestValuesA, RequestValuesB}}

InRange(opt, lo, hi) == opt = Absent \/ (lo <= opt[1] /\ opt[1] <= hi)
AtLeast(opt, lo) == opt = Absent \/ lo <= opt[1]

\* BatchRequestConfig: the ge / le constraints of its fields
BatchRequestConfig_valid(c) ==
    /\ InRange(c.static_xhr_concurrency, 1, 500)
    /\ InRange(c.static_xhr_timeout, 5, 300)
    /\ InRange(c.custom_js_batch_size, 1, 100)
    /\ InRange(c.custom_js_cooldown_seconds, 0, 600)
    /\ InRange(c.custom_js_timeout, 30, 600)
    /\ InRange(c.custom_js_max_retries, 1, 20)
    /\ InRange(c.decodo_timeout, 30, 600)
    /\ AtLeast(c.min_content_length, 100)
    /\ AtLeast(c.min_text_length, 50)

\* BatchRequest: min_items, max_items, the entry type, validate_urls, the config
BatchRequest_valid(request) ==
    /\ request.urls.n >= MinItems
    /\ request.urls.n <= MaxItems
    /\ \A e \in request.urls.kinds : ValidEntry(e)
    /\ ~(request.urls.n > MaxItems)
    /\ request.config # Absent => BatchRequestConfig_valid(request.config[1])

\* APIConfig as config.py sets it with an empty environment
APIConfigDefaults ==
    [DEFAULT |->
        [static_xhr_concurrency |-> 100, static_xhr_timeout |-> 30,
         custom_js_batch_size |-> 20, custom_js_cooldown_seconds |-> 120,
         custom_js_timeout |-> 300, custom_js_max_retries |-> 10,
         decodo_enabled |-> TRUE, decodo_timeout |-> 180,
         min_content_length |-> 1000, min_text_length |-> 200,
         save_outputs |-> FALSE, enable_logging |-> TRUE],
     CUSTOM_JS_SERVICES |-> <<>>,
     CUSTOM_JS_SKIP_DOMAINS |-> <<<<"c", "r", "o", "m", "a", ".", "c", "o", "m">>>>]

\* APIConfig with every DEFAULT_* variable, CUSTOM_JS_SERVICES and
\* CUSTOM_JS_SKIP_DOMAINS set in the environment
APIConfigFromEnv ==
    [DEFAULT |->
        [static_xhr_concurrency |-> 101, static_xhr_timeout |-> 33,
         custom_js_batch_size |-> 21, custom_js_cooldown_seconds |-> 121,
         custom_js_timeout |-> 301, custom_js_max_retries |-> 11,
         decodo_enabled |-> FALSE, decodo_timeout |-> 181,
         min_content_length |-> 1001, min_text_length |-> 201,
         save_outputs |-> TRUE, enable_logging |-> FALSE],
     CUSTOM_JS_SERVICES |-> <<"svc.env">>,
     CUSTOM_JS_SKIP_DOMAINS |-> <<URLTable[2].host>>]

APIConfigs == {APIConfigDefaults, APIConfigFromEnv}

SchemeSep == <<":", "/", "/">>

\* the positions of s at which p occurs
Occurrences(s, p) == {i \in 1..(Len(s) - Len(p) + 1) : SubSeq(s, i, i + Len(p) - 1) = p}

\* the least position of s that holds a character of cs, Len(s) + 1 if none
FirstOf(s, cs) ==
    LET at == {i \in 1..Len(s) : s[i] \in cs}
    IN  IF at = {} THEN Len(s) + 1 ELSE CHOOSE i \in at : \A j \in at : i <= j

\* lines 16-19: urlparse of the candidate, "https://" put before a value
\* without "://"; netloc runs from the "://" to the first "/", "?" or "#"
ParsedDomain(value) ==
    LET candidate == IF Occurrences(value, SchemeSep) = {}
                     THEN <<"h", "t", "t", "p", "s">> \o SchemeSep \o value ELSE value
        occ == Occurrences(candidate, SchemeSep)
        start == (CHOOSE i \in occ : \A j \in occ : i <= j) + Len(SchemeSep)
        rest == SubSeq(candidate, start, Len(candidate))
        cut == FirstOf(rest, {"/", "?", "#"})
    IN  [netloc |-> SubSeq(rest, 1, cut - 1),
         path |-> SubSeq(rest, cut, FirstOf(rest, {"?", "#"}) - 1)]

\* batch_config._normalize_domain on a value without blanks; <<>> is the None
\* it returns for an empty value
_normalize_domain(value) ==
    IF value = <<>> THEN <<>>
    ELSE LET parsed == ParsedDomain(value)
             host == Lower(IF parsed.netloc # <<>> THEN parsed.netloc ELSE parsed.path)
         IN  IF StartsWith(host, WwwDot) THEN SubSeq(host, 5, Len(host)) ELSE host

\* batch_config._normalize_domain_list
_normalize_domain_list(domains) ==
    SelectSeq(Map(domains, _normalize_domain), LAMBDA d : d # <<>>)

\* BatchFetcherConfig(): the constructor defaults of the merged fields
BatchFetcherConfig ==
    [static_xhr_concurrency |-> 50, static_xhr_timeout |-> 30,
     custom_js_service_endpoints |-> <<"easygoing-strength-production.up.railway.app">>,
     custom_js_batch_size |-> 20, custom_js_cooldown_seconds |-> 120, custom_js_timeout |-> 300,
     custom_js_max_retries |-> 10, custom_js_skip_domains |-> _normalize_domain_list(<<>>),
     decodo_enabled |-> TRUE, decodo_timeout |-> 180,
     min_content_length |-> 1000, min_text_length |-> 200,
     save_outputs |-> TRUE, enable_logging |-> TRUE]

\* fetch_batch lines 144-247: the configuration handed to async_fetch_batch
fetch_batch_config(request_config, APIConfig) ==
    LET req == IF request_config # Absent THEN request_config[1] ELSE AllAbsent
    IN  [f \in Fields |->
            IF f \in SimpleFields
            THEN (IF req[f] # Absent THEN req[f][1] ELSE APIConfig.DEFAULT[f])
            ELSE IF f = "custom_js_service_endpoints"
            THEN (IF req[f] # Absent THEN req[f][1]
                  ELSE IF APIConfig.CUSTOM_JS_SERVICES # <<>> THEN APIConfig.CUSTOM_JS_SERVICES
                  ELSE BatchFetcherConfig[f])
            ELSE (IF req[f] # Absent THEN _normalize_domain_list(req[f][1])
                  ELSE IF APIConfig.CUSTOM_JS_SKIP_DOMAINS # <<>>
                  THEN _normalize_domain_list(APIConfig.CUSTOM_JS_SKIP_DOMAINS)
                  ELSE BatchFetcherConfig[f])]

\* ContentAnalyzer(): the thresholds of an analyzer constructed without arguments
ContentAnalyzerDefaults == [min_content_length |-> 1000, min_text_length |-> 200]

\* the value of each field that async_fetch_batch runs the batch with: it reads
\* config.f for every merged field but the two thresholds, which it never reads;
\* its classifier is ContentAnalyzer() (line 185) and the static tier is built
\* from timeout, headers and max_concurrent only (lines 109-113)
batch_settings(cfg) ==
    [f \in Fields |->
        IF f \in DOMAIN ContentAnalyzerDefaults THEN ContentAnalyzerDefaults[f] ELSE cfg[f]]

\* what `await async_fetch_batch(url_strings, config)` can end in: a report, or
\* an exception (the JSRenderError of the provider client's constructor)
SampleReports ==
    { <<Rec(1, Article, "static", "success", None)>>,
      <<Rec(1, None, "custom_js", "failed", "render failed")>>,
      <<Rec(1, Article, "xhr", "success", None),
        Rec(2, None, "decodo", "failed", "Decodo fallback disabled")>>,
      <<Rec(1, None, "custom_js", "failed", "render failed"),
        Rec(2, None, "custom_js", "failed", "Polling timeout: task did not complete")>> }

BatchOutcomes ==
    {[raised |-> None, result |-> get_final_result(agg, t)] : agg \in SampleReports, t \in Elapsed}
        \cup {[raised |-> e, result |-> NoResult] : e \in {"JSRenderError", "ValueError"}}

\* no response sent yet
NoResponse ==
    [status_code |-> 0, keys |-> {}, error |-> None, detail |-> None, body_status_code |-> 0,
     results |-> <<>>, summary |-> NoResult.summary, success |-> FALSE]

\* models.ErrorResponse(error, detail, status_code).dict() sent with that HTTP status
ErrorResponse(error, detail, status_code) ==
    [NoResponse EXCEPT !.status_code = status_code, !.keys = {"error", "detail", "status_code"},
                       !.error = error, !.detail = detail, !.body_status_code = status_code]

\* main.validation_exception_handler, registered for RequestValidationError
validation_exception_handler == ErrorResponse("Validation Error", "str(exc)", 422)

\* raise HTTPException(status_code, detail) in fetch_batch: main.py registers handlers
\* for RequestValidationError and Exception only, so the framework's handler of
\* HTTPException answers, with the body {"detail": detail}
HTTPException(status_code, detail) ==
    [NoResponse EXCEPT !.status_code = status_code, !.keys = {"detail"}, !.detail = detail]

\* a handler that reports success as soon as one URL succeeded
BatchResponse_AnySuccess(result) ==
    [NoResponse EXCEPT !.status_code = 200, !.keys = {"results", "summary", "success"},
                       !.results = result.results, !.summary = result.summary,
                       !.success = (result.summary.success > 0)]

\* fetch_batch lines 253-278: BatchResponse(results, summary, success)
BatchResponse(result) ==
    [NoResponse EXCEPT !.status_code = 200, !.keys = {"results", "summary", "success"},
                       !.results = result.results, !.summary = result.summary,
                       !.success = (result.summary.failed = 0)]

\* the orchestrator at rest: ApiSpec and PollSpec do not run it
IdleBatch ==
    /\ urls = <<>>
    /\ config = [decodo_enabled |-> TRUE, custom_js_max_retries |-> 0, custom_js_skip_domains |-> <<>>]
    /\ env = [basic_auth_token |-> TRUE, username |-> FALSE, password |-> FALSE]
    /\ pc = "idle"
    /\ aggregator = <<>>
    /\ js_urls = <<>>
    /\ decodo_urls = <<>>
    /\ urls_to_process = <<>>
    /\ attempt = 0
    /\ custom_js_successful = <<>>
    /\ phase2_results = <<>>
    /\ renderer_calls = <<>>
    /\ decodo = NoClient
    /\ task_map = <<>>
    /\ phase3_results = <<>>
    /\ final_result = NoResult
    /\ replay = NoReplay

batch_vars ==
    <<urls, config, env, pc, aggregator, js_urls, decodo_urls, urls_to_process, attempt,
      custom_js_successful, phase2_results, renderer_calls, decodo, task_map, phase3_results,
      final_result, replay>>

ApiInit ==
    /\ IdleBatch
    /\ poll = NoPoll
    /\ sem = NoSem
    /\ call = NoCall
    /\ \E u \in RequestUrls, c \in RequestConfigs, a \in APIConfigs :
           api = [pc |-> "received", request |-> [urls |-> u, config |-> c], APIConfig |-> a,
                  config |-> Absent, tiers_invoked |-> FALSE, response |-> NoResponse]

\* the request arrives: pydantic validates the body; a valid request enters
\* fetch_batch, which builds the configuration and awaits async_fetch_batch
ApiReceive ==
    /\ api.pc = "received"
    /\ IF ~BatchRequest_valid(api.request)
       THEN api' = [api EXCEPT !.pc = "responded", !.response = validation_exception_handler]
       ELSE api' = [api EXCEPT !.pc = "running", !.tiers_invoked = TRUE,
                               !.config = <<fetch_batch_config(api.request.config, api.APIConfig)>>]
    /\ UNCHANGED <<batch_vars, poll, sem, call>>

\* async_fetch_batch returns or raises: fetch_batch lines 250-285
ApiBatchReturns(outcome) ==
    /\ api.pc = "running"
    /\ api' = [api EXCEPT
                 !.pc = "responded",
                 !.response =
                     IF outcome.raised = None THEN BatchResponse(outcome.result)
                     ELSE IF outcome.raised = "ValueError" THEN HTTPException(400, "str(e)")
                     ELSE HTTPException(500, "Internal server error: str(e)")]
    /\ UNCHANGED <<batch_vars, poll, sem, call>>

ApiNext ==
    \/ ApiReceive
    \/ \E outcome \in BatchOutcomes : ApiBatchReturns(outcome)

ApiSpec == ApiInit /\ [][ApiNext]_vars

\* C12: the success flag of a batch response is true exactly when the summary
\* of that response counts no failed record.
C12_SuccessIffNoFailed ==
    (api.pc = "responded" /\ "success" \in api.response.keys) =>
        (api.response.success <=> api.response.summary.failed = 0)

\* C12 witness: a response whose summary counts a success and a failure
C12_Witness ==
    /\ api.pc = "responded"
    /\ "success" \in api.response.keys
    /\ api.response.summary.success > 0
    /\ api.response.summary.failed > 0
    /\ ~api.response.success

\* a well-formed absolute URL has a scheme and a host
WellFormedAbsolute(e) == e.scheme # "" /\ e.has_host

\* C13: async_fetch_batch is invoked only for a request whose urls list has
\* between 1 and 10000 entries, every one a well-formed absolute URL; every
\* other request is answered with an error and no tier runs.
C13_RejectsBadUrlLists ==
    api.tiers_invoked =>
        /\ api.request.urls.n >= 1
        /\ api.request.urls.n <= 10000
        /\ \A e \in api.request.urls.kinds : WellFormedAbsolute(e)

\* C14: every error response of the endpoint, for a validation failure or for
\* an internal failure, is an object with the fields error and status_code
\* and, optionally, detail.
C14_ErrorShape ==
    (api.pc = "responded" /\ api.response.status_code >= 400) =>
        /\ {"error", "status_code"} \subseteq api.response.keys
        /\ api.response.keys \subseteq {"error", "detail", "status_code"}

\* the request's value of a present field, the system default of an absent one
ExpectedSetting(request_config, APIConfig, f) ==
    LET req == IF request_config # Absent THEN request_config[1] ELSE AllAbsent
    IN  IF req[f] # Absent THEN req[f][1]
        ELSE IF f \in SimpleFields THEN APIConfig.DEFAULT[f]
        ELSE IF f = "custom_js_service_endpoints"
        THEN (IF APIConfig.CUSTOM_JS_SERVICES # <<>> THEN APIConfig.CUSTOM_JS_SERVICES
              ELSE BatchFetcherConfig[f])
        ELSE _normalize_domain_list(APIConfig.CUSTOM_JS_SKIP_DOMAINS)

\* C15: the batch runs with the request's value of every configuration field
\* the request carries and with the system default of every field it does
\* not carry, also when the request has no config at all.
C15_ConfigOverrides ==
    api.tiers_invoked =>
        \A f \in Fields :
            batch_settings(api.config[1])[f] =
                ExpectedSetting(api.request.config, api.APIConfig, f)

----------------------------------------------------------------------------
(* Two runs of one batch.  ReplaySpec runs the batch, keeps the responses   *)
(* the tiers gave and the report, then runs the same batch again with the   *)
(* same configuration against the same responses; only the clock is free.   *)

ReplayStatic ==
    { [status_code |-> 200, html |-> Article], [status_code |-> 0, html |-> None] }

ReplayPollEvents ==
    { [kind |-> "done", html |-> Article], [kind |-> "timeout", html |-> None] }

ReplayRender ==
    { [html |-> Article, status |-> "success", error |-> None],
      [html |-> None,    status |-> "failed",  error |-> "render failed"] }

ReplaySubmit(us) ==
    { SubmitError("Request timeout"),
      [EmptyResponse EXCEPT !.has_queries = TRUE, !.queries = MappedEntries(us)],
      [EmptyResponse EXCEPT !.is_dict = FALSE, !.items = StringEntries(us)] }

\* the batches replayed: URLs in table order, at most one renderer round,
\* credentials configured
ReplayInit ==
    /\ Init
    /\ \A i, j \in 1..Len(urls) : i < j => urls[i] < urls[j]
    /\ config.custom_js_max_retries <= 1
    /\ env.basic_auth_token /\ ~env.username

\* the first run has returned: keep its report and call async_fetch_batch again
Restart ==
    /\ pc = "done"
    /\ replay.run = 1
    /\ replay' = [replay EXCEPT !.run = 2, !.first = final_result]
    /\ pc' = "start"
    /\ aggregator' = <<>>
    /\ js_urls' = <<>>
    /\ decodo_urls' = <<>>
    /\ urls_to_process' = <<>>
    /\ attempt' = 0
    /\ custom_js_successful' = <<>>
    /\ phase2_results' = <<>>
    /\ renderer_calls' = <<>>
    /\ decodo' = NoClient
    /\ task_map' = <<>>
    /\ phase3_results' = <<>>
    /\ final_result' = NoResult
    /\ UNCHANGED <<urls, config, env, api, poll, sem, call>>

ReplayNext ==
    \/ \E resp \in [1..Len(urls) -> ReplayStatic] :
           /\ replay.run = 2 => replay.resp = <<resp>>
           /\ Phase1(resp)
           /\ replay' = [replay EXCEPT !.resp = <<resp>>]
           /\ UNCHANGED <<api, poll, sem, call>>
    \/ \E out \in [1..Len(urls_to_process) -> ReplayRender] :
           /\ replay.run = 2 => (attempt \in DOMAIN replay.outs /\ replay.outs[attempt] = out)
           /\ RenderRound(out)
           /\ replay' = IF replay.run = 1 THEN [replay EXCEPT !.outs = Append(@, out)] ELSE replay
           /\ UNCHANGED <<api, poll, sem, call>>
    \/ \E batch_response \in ReplaySubmit(decodo_urls) :
           /\ replay.run = 2 => replay.submit = <<batch_response>>
           /\ DecodoSubmit(batch_response)
           /\ replay' = [replay EXCEPT !.submit = <<batch_response>>]
           /\ UNCHANGED <<api, poll, sem, call>>
    \/ \E ev \in [1..Len(task_map) -> ReplayPollEvents] :
           /\ replay.run = 2 => replay.evs = <<ev>>
           /\ DecodoGather(ev)
           /\ replay' = [replay EXCEPT !.evs = <<ev>>]
           /\ UNCHANGED <<api, poll, sem, call>>
    \/ Restart

ReplaySpec == ReplayInit /\ [][ReplayNext]_vars

----------------------------------------------------------------------------
(* The provider client *)

C19_TokenPrecedence ==
    /\ HasCredentials(env) => pc # "raised"
    /\ decodo.contacted =>
           decodo.submit_auth =
               IF env.basic_auth_token THEN "Basic <token>" ELSE "Basic b64(username:password)"
    /\ pc = "decodo_poll" \/ (pc = "done" /\ task_map # <<>>) =>
           decodo.poll_auth =
               IF env.basic_auth_token THEN "Basic <token>" ELSE "Basic b64(username:password)"

\* C19 witness: token, username and password are all configured and the tasks
\* of a batch were polled
C19_Witness ==
    /\ env.basic_auth_token /\ env.username /\ env.password
    /\ pc = "done"
    /\ task_map # <<>>
    /\ decodo.submit_auth = "Basic <token>"
    /\ decodo.poll_auth = "Basic <token>"

----------------------------------------------------------------------------
(* The renderer retry loop *)

AcceptedUrls == {custom_js_successful[k].url : k \in 1..Len(custom_js_successful)}

RealContent(r) ==
    r.status = "success" /\ Truthy(r.html) /\ ~is_custom_js_skeleton(r.html, r.url)

----------------------------------------------------------------------------
(* One call of AsyncDecodoFallback._poll_task_result.  Times are held in    *)
(* milliseconds; a step of PollSpec is the code between two awaits of       *)
(* session.get: a response is handled, the loop sleeps, and the next GET    *)
(* is issued or the call returns.                                           *)

Seconds(n) == n * 1000

max_consecutive_errors == 5

\* min(interval * 1.2, 10.0) and min(interval * 1.5, 10.0)
Min(a, b) == IF a <= b THEN a ELSE b
SlowBackoff(interval) == Min((interval * 12) \div 10, Seconds(10))
FastBackoff(interval) == Min((interval * 15) \div 10, Seconds(10))

\* the GETs of one call are counted up to MaxPolls
MaxPolls == 32

\* timeout, poll_interval and max_poll_attempts of the client: the defaults,
\* the shortest and the longest decodo_timeout the endpoint accepts, and a
\* poll_interval of 0 and one of 15, which no constructor rejects
PollConfigs ==
    { [timeout |-> 180, poll_interval |-> 2, max_poll_attempts |-> 30],
      [timeout |-> 30,  poll_interval |-> 1, max_poll_attempts |-> 30],
      [timeout |-> 600, poll_interval |-> 2, max_poll_attempts |-> 30],
      [timeout |-> 30,  poll_interval |-> 0, max_poll_attempts |-> 30],
      [timeout |-> 30,  poll_interval |-> 15, max_poll_attempts |-> 30] }

\* results[0] of a 200 body: content is `content or html or text` of the entry
ResultEntries ==
    { [content |-> Article, status |-> "done"],
      [content |-> Article, status |-> "failed"],
      [content |-> "",      status |-> "done"],
      [content |-> "",      status |-> "failed"] }

\* a 200 body with status done or one of results / result / data: html is its
\* top-level `html or content or text`, results its results list, error its
\* error message (error.message or error)
DoneResponses ==
    [kind : {"done"}, html : {Article, ""},
     results : {<<>>} \cup {<<e>> : e \in ResultEntries},
     error : {None, "quota exceeded"}]

\* what one GET of the results endpoint can end in
PollResponses ==
    { [kind |-> "not_ready", html |-> None, results |-> <<>>, error |-> None],          \* HTTP 404 or 204
      [kind |-> "server_error", html |-> None, results |-> <<>>, error |-> None],       \* HTTP 5xx
      [kind |-> "client_error", html |-> None, results |-> <<>>, error |-> None],       \* HTTP 4xx but 404
      [kind |-> "unexpected_status", html |-> None, results |-> <<>>, error |-> None],  \* any other status but 200
      [kind |-> "content_type_error", html |-> None, results |-> <<>>, error |-> None], \* 200, response.json() raises ContentTypeError
      [kind |-> "json_error", html |-> None, results |-> <<>>, error |-> None],         \* 200, response.json() raises
      [kind |-> "task_failed", html |-> None, results |-> <<>>, error |-> None],        \* 200, status failed or error
      [kind |-> "processing", html |-> None, results |-> <<>>, error |-> None],         \* 200, none of the above nor done
      [kind |-> "request_timeout", html |-> None, results |-> <<>>, error |-> None],    \* asyncio.TimeoutError
      [kind |-> "network_error", html |-> None, results |-> <<>>, error |-> None],      \* aiohttp.ClientError
      [kind |-> "exception", html |-> None, results |-> <<>>, error |-> None] }         \* any other exception
    \cup DoneResponses

\* no response has been handled yet
NoPollResponse == [kind |-> "none", html |-> None, results |-> <<>>, error |-> None]

NoRecord == [url |-> 0, html |-> None, status |-> None, error |-> None]

FailedRecord(original_url, error) ==
    [url |-> original_url, html |-> None, status |-> "failed", error |-> error]

\* a client that gives up only when the count has passed max_consecutive_errors
BudgetSpent_Exceeded(consecutive_errors) == consecutive_errors > max_consecutive_errors

\* `if consecutive_errors >= max_consecutive_errors`
BudgetSpent(consecutive_errors) == consecutive_errors >= max_consecutive_errors

\* a client for which only a 200 body can be not ready
NotReadyKinds_ProcessingOnly == {"processing"}

\* the responses after which the loop sleeps and polls again, with the slow
\* backoff and the error count reset
NotReadyKinds == {"not_ready", "processing"}

\* a client that retries on every 4xx status
ErrorKinds_WithClientError ==
    {"server_error", "unexpected_status", "content_type_error", "json_error",
     "request_timeout", "network_error", "client_error"}

\* the responses that count toward max_consecutive_errors
ErrorKinds ==
    {"server_error", "unexpected_status", "content_type_error", "json_error",
     "request_timeout", "network_error"}

\* a client that reads the top-level fields only
DoneRecord_TopLevelOnly(original_url, r) ==
    IF Truthy(r.html)
    THEN [url |-> original_url, html |-> r.html, status |-> "success", error |-> None]
    ELSE FailedRecord(original_url,
                      IF Truthy(r.error) THEN r.error
                      ELSE "Task completed but response contains no HTML content")

\* lines 371-422: the record returned on a 200 body that counts as completed
DoneRecord(original_url, r) ==
    LET r0_html == IF r.results # <<>> THEN r.results[1].content ELSE None
        html == IF Truthy(r0_html) THEN r0_html ELSE r.html
    IN  IF r.results # <<>> /\ r.results[1].status = "failed"
        THEN FailedRecord(original_url, "Result failed: Result failed")
        ELSE IF Truthy(html)
        THEN [url |-> original_url, html |-> html, status |-> "success", error |-> None]
        ELSE FailedRecord(original_url,
                          IF Truthy(r.error) THEN r.error
                          ELSE "Task completed but response contains no HTML content")

\* the record returned on a response that ends the polling
TerminalRecord(original_url, r) ==
    IF r.kind = "client_error" THEN FailedRecord(original_url, "Client error")
    ELSE IF r.kind = "task_failed"
    THEN FailedRecord(original_url, "Decodo task failed: Task failed (no error message)")
    ELSE IF r.kind = "done" THEN DoneRecord(original_url, r)
    ELSE FailedRecord(original_url, "Unexpected error")

\* `while waited < max_wait`: issue the next GET, or return the timeout record
LoopTest(p) ==
    IF p.waited < Seconds(p.cfg.timeout)
    THEN [p EXCEPT !.polls = Min(@ + 1, MaxPolls)]
    ELSE [p EXCEPT !.pc = "returned",
                   !.result = FailedRecord(p.original_url, "Polling timeout: task did not complete")]

\* lines 238-246: the locals of _poll_task_result and the first loop test
PollCall(cfg, e) ==
    LoopTest([pc |-> "polling", cfg |-> cfg, original_url |-> 1,
              headers |-> _get_auth_header(e),
              waited |-> 0, interval |-> Seconds(cfg.poll_interval),
              consecutive_errors |-> 0, polls |-> 0, last |-> NoPollResponse,
              result |-> NoRecord])

PollInit ==
    /\ IdleBatch
    /\ api = NoApi
    /\ \E cfg \in PollConfigs : poll = PollCall(cfg, env)
    /\ sem = NoSem
    /\ call = NoCall

\* lines 247-463: one response, then the sleep and the next loop test
PollResponse(r) ==
    /\ poll.pc = "polling"
    /\ IF r.kind \in NotReadyKinds
       THEN poll' = LoopTest([poll EXCEPT !.last = r,
                                          !.consecutive_errors = 0,
                                          !.waited = @ + poll.interval,
                                          !.interval = SlowBackoff(@)])
       ELSE IF r.kind \in ErrorKinds
       THEN IF BudgetSpent(poll.consecutive_errors + 1)
            THEN poll' = [poll EXCEPT !.pc = "returned",
                                      !.last = r,
                                      !.consecutive_errors = @ + 1,
                                      !.result = FailedRecord(poll.original_url,
                                                              "error after 5 attempts")]
            ELSE poll' = LoopTest([poll EXCEPT !.last = r,
                                               !.consecutive_errors = @ + 1,
                                               !.waited = @ + poll.interval,
                                               !.interval = FastBackoff(@)])
       ELSE poll' = [poll EXCEPT !.pc = "returned",
                                 !.last = r,
                                 !.consecutive_errors =
                                     IF r.kind \in {"task_failed", "done"} THEN 0 ELSE @,
                                 !.result = TerminalRecord(poll.original_url, r)]
    /\ UNCHANGED <<batch_vars, api, sem, call>>

PollNext == \E r \in PollResponses : PollResponse(r)

PollSpec == PollInit /\ [][PollNext]_vars

\* C18: the GETs issued for one task never outnumber max_poll_attempts; a
\* call that has used them all returns a failed record.
C18_PollAttemptsBounded ==
    /\ poll.polls <= poll.cfg.max_poll_attempts
    /\ (poll.pc = "returned" /\ ~Truthy(poll.result.html)) => poll.result.status = "failed"

----------------------------------------------------------------------------
(* The carry set of the renderer loop and the input of the provider tier *)

\* the static tier did not resolve URL u
Promoted(u) ==
    \A i \in 1..Len(aggregator) :
        ~(aggregator[i].url = u /\ aggregator[i].method \in {"static", "xhr"})

\* the URLs of a renderer round's records that failed or were rejected
Unaccepted(results) == {results[i].url : i \in {j \in 1..Len(results) : ~RealContent(results[j])}}

\* C21: round 1 of the renderer loop receives exactly the promoted URLs that
\* are not on the skip list; round k+1 receives exactly the URLs that failed
\* or were rejected in round k; a URL accepted in some round is in no later
\* round.
C21_CarrySet ==
    /\ renderer_calls # <<>> =>
           Range(renderer_calls[1]) = {u \in Range(urls) : Promoted(u) /\ ~OnSkipList(u)}
    /\ (pc = "render" /\ attempt >= 2) =>
           Range(renderer_calls[attempt]) = Unaccepted(phase2_results)
    /\ \A k \in 1..(Len(renderer_calls) - 1) :
           Range(renderer_calls[k + 1]) \subseteq Range(renderer_calls[k])
    /\ pc = "render" => Range(urls_to_process) \cap AcceptedUrls = {}

\* C22: the provider tier's input is exactly the promoted skip-list URLs
\* together with the URLs still unaccepted after the last renderer round; it
\* holds no URL recorded as a static or custom_js success and misses no
\* unresolved URL.
C22_ProviderInput ==
    decodo.contacted =>
        /\ Range(decodo_urls) =
               {u \in Range(urls) : Promoted(u) /\ OnSkipList(u)}
                   \cup {u \in Range(urls) : Promoted(u) /\ ~OnSkipList(u) /\ u \notin AcceptedUrls}
        /\ \A u \in Range(decodo_urls) : Promoted(u) /\ u \notin AcceptedUrls
        /\ \A u \in Range(urls) : (Promoted(u) /\ u \notin AcceptedUrls) => u \in Range(decodo_urls)

\* the URLs of the records a renderer round returned, in order
UrlsOf(results) == [i \in 1..Len(results) |-> results[i].url]

\* C23: the tiers never overlap within a batch: no renderer round is started
\* and the provider is not contacted before the static phase has returned;
\* while a round is awaited the provider is not contacted and every earlier
\* round has returned; the provider is contacted only once the last round
\* that was started has returned.
C23_TiersInSequence ==
    /\ pc = "start" => (renderer_calls = <<>> /\ ~decodo.contacted)
    /\ pc = "render" =>
           /\ ~decodo.contacted
           /\ Len(renderer_calls) = attempt
           /\ attempt >= 2 => UrlsOf(phase2_results) = renderer_calls[attempt - 1]
    /\ decodo.contacted =>
           (renderer_calls # <<>> =>
                UrlsOf(phase2_results) = renderer_calls[Len(renderer_calls)])

\* C23 witness: the provider is contacted after two renderer rounds returned
C23_Witness ==
    /\ pc = "decodo_submit"
    /\ decodo.contacted
    /\ Len(renderer_calls) = 2
    /\ UrlsOf(phase2_results) = renderer_calls[2]

----------------------------------------------------------------------------
(* The provider's batch submit *)

\* the submit came back as a failure, or no task id can be extracted from it
SubmitFailed(batch_response) ==
    \/ batch_response.is_dict /\ batch_response.has_error
    \/ _extract_task_ids(batch_response) = <<>>

----------------------------------------------------------------------------
(* The poll loop, response by response *)

\* this step handled a response of one of the kinds K
Handled(K) == poll.pc = "polling" /\ poll'.last.kind \in K

\* the HTML the client finds in a completed body: first entry, then top level
ExtractableHtml(r) ==
    IF r.results # <<>> /\ Truthy(r.results[1].content) THEN r.results[1].content ELSE r.html

EntryFailed(r) == r.results # <<>> /\ r.results[1].status = "failed"

\* C25: a poll response with HTTP 404 or 204 is not an error: the count of
\* consecutive errors is not raised, the call does not fail on it (it goes
\* on to the next GET unless the accumulated wait has reached the timeout),
\* and a done response with HTML that follows it yields a success record.
C25_NotReadyIsNotAnError ==
    [][/\ Handled({"not_ready"}) =>
              /\ poll'.consecutive_errors = 0
              /\ poll'.pc = "polling" => poll'.polls = Min(poll.polls + 1, MaxPolls)
              /\ poll'.pc = "returned" =>
                     /\ poll'.waited >= Seconds(poll.cfg.timeout)
                     /\ poll'.result.error = "Polling timeout: task did not complete"
       /\ (/\ poll.last.kind = "not_ready"
           /\ Handled({"done"})
           /\ Truthy(ExtractableHtml(poll'.last))
           /\ ~EntryFailed(poll'.last)) =>
              /\ poll'.pc = "returned"
              /\ poll'.result.status = "success"
              /\ poll'.result.html = ExtractableHtml(poll'.last)
      ]_vars

\* C25 witness: two not-ready responses in a row were handled (2 s, then
\* 2.4 s of sleep) and the third GET is out
C25_Witness ==
    /\ poll.pc = "polling"
    /\ poll.last.kind = "not_ready"
    /\ poll.cfg.poll_interval = 2
    /\ poll.waited = 4400
    /\ poll.polls = 3
    /\ poll.consecutive_errors = 0

\* the 200 bodies that response.json() parsed
ParsedKinds == {"task_failed", "done", "processing"}

\* C26: a call fails on account of poll errors (5xx, request timeout, network
\* error, content-type or JSON-parse error) only once the number of
\* consecutive errors exceeds the budget of 5; an error within the budget is
\* followed by another poll unless the wait has reached the timeout; a
\* not-ready response and a parsed body reset the count.
C26_FailsOnlyBeyondBudget ==
    [][/\ (Handled(ErrorKinds) /\ poll'.pc = "returned"
              /\ poll'.result.error # "Polling timeout: task did not complete") =>
              poll'.consecutive_errors > max_consecutive_errors
       /\ (Handled(ErrorKinds) /\ poll'.consecutive_errors <= max_consecutive_errors) =>
              \/ poll'.pc = "polling" /\ poll'.consecutive_errors = poll.consecutive_errors + 1
              \/ poll'.waited >= Seconds(poll.cfg.timeout)
       /\ Handled({"not_ready"} \cup ParsedKinds) => poll'.consecutive_errors = 0
      ]_vars

\* C26 as the code has it: the call fails on account of poll errors exactly
\* when the number of consecutive errors reaches 5, that is on the fifth
\* consecutive error; an earlier error is followed by another poll unless
\* the wait has reached the timeout; a not-ready response and a parsed body
\* reset the count.
C26_FailsOnceBudgetReached ==
    [][/\ (Handled(ErrorKinds) /\ poll'.pc = "returned"
              /\ poll'.result.error # "Polling timeout: task did not complete") =>
              poll'.consecutive_errors = max_consecutive_errors
       /\ (Handled(ErrorKinds) /\ poll'.consecutive_errors >= max_consecutive_errors) =>
              /\ poll'.pc = "returned"
              /\ poll'.result = FailedRecord(poll.original_url, "error after 5 attempts")
              /\ poll'.polls = poll.polls
       /\ (Handled(ErrorKinds) /\ poll'.consecutive_errors < max_consecutive_errors) =>
              /\ poll'.consecutive_errors = poll.consecutive_errors + 1
              /\ poll'.pc = "polling" \/ poll'.waited >= Seconds(poll.cfg.timeout)
       /\ Handled({"not_ready"} \cup ParsedKinds) => poll'.consecutive_errors = 0
      ]_vars

\* C26 witness: the fifth GET in a row ended in an error and the call returned
C26_Witness ==
    /\ poll.pc = "returned"
    /\ poll.last.kind \in ErrorKinds
    /\ poll.consecutive_errors = max_consecutive_errors
    /\ poll.polls = 5
    /\ poll.result.status = "failed"

\* C27: an HTTP 4xx other than 404, and an HTTP 200 whose JSON status is
\* failed or error, end the call in the step that handles them, with a failed
\* record without html; no further GET is issued.
C27_TerminalFailures ==
    [][Handled({"client_error", "task_failed"}) =>
           /\ poll'.pc = "returned"
           /\ poll'.result.status = "failed"
           /\ poll'.result.html = None
           /\ poll'.result.url = poll.original_url
           /\ Truthy(poll'.result.error)
           /\ poll'.polls = poll.polls
           /\ poll'.waited = poll.waited
      ]_vars

\* C27 witness: the second GET was answered with a client error
C27_Witness ==
    /\ poll.pc = "returned"
    /\ poll.last.kind = "client_error"
    /\ poll.polls = 2
    /\ poll.result = FailedRecord(poll.original_url, "Client error")

\* a 200 body that is still processing does not end the call
StillProcessing ==
    Handled({"processing"}) =>
        \/ poll'.pc = "polling"
        \/ poll'.result.error = "Polling timeout: task did not complete"

\* C28: an HTTP 200 body with status done, or with results / result / data,
\* yields a success record whenever non-empty HTML can be extracted from the
\* first results entry or from the top-level fields, and a failed "no HTML
\* content" record otherwise; a 200 body with none of these is still
\* processing.
C28_DoneYieldsHtml ==
    [][/\ Handled({"done"}) =>
              /\ poll'.pc = "returned"
              /\ poll'.result =
                     IF Truthy(ExtractableHtml(poll'.last))
                     THEN [url |-> poll.original_url, html |-> ExtractableHtml(poll'.last),
                           status |-> "success", error |-> None]
                     ELSE FailedRecord(poll.original_url,
                                       "Task completed but response contains no HTML content")
       /\ StillProcessing
      ]_vars

\* C28 as the code has it: a first results entry with status failed yields a
\* failed "Result failed" record whatever HTML the body carries; otherwise
\* non-empty extractable HTML yields a success record, and a body without
\* it a failed record whose error is the body's own error message or, when
\* it has none, "no HTML content".
C28_DoneYieldsHtmlUnlessEntryFailed ==
    [][/\ Handled({"done"}) =>
              /\ poll'.pc = "returned"
              /\ poll'.result =
                     IF EntryFailed(poll'.last)
                     THEN FailedRecord(poll.original_url, "Result failed: Result failed")
                     ELSE IF Truthy(ExtractableHtml(poll'.last))
                     THEN [url |-> poll.original_url, html |-> ExtractableHtml(poll'.last),
                           status |-> "success", error |-> None]
                     ELSE FailedRecord(poll.original_url,
                                       IF Truthy(poll'.last.error) THEN poll'.last.error
                                       ELSE "Task completed but response contains no HTML content")
       /\ StillProcessing
      ]_vars

\* C28 witness: a done body without top-level HTML whose first results entry
\* carries the page was turned into a success record
C28_Witness ==
    /\ poll.pc = "returned"
    /\ poll.last.kind = "done"
    /\ poll.last.html = ""
    /\ poll.last.results = <<[content |-> Article, status |-> "done"]>>
    /\ poll.result.status = "success"
    /\ poll.result.html = Article

----------------------------------------------------------------------------
(* process_urls, step 3: the polling tasks behind one semaphore.  A task    *)
(* is created by the list comprehension, enters `async with semaphore`,     *)
(* polls, and leaves the block when _poll_task_result has returned.         *)

MaxTasks == 4
MaxConcurrent == 2

\* the polling tasks that hold a slot
Polling(s) == {t \in DOMAIN s.polling_tasks : s.polling_tasks[t] = "polling"}

\* lines 546-557: semaphore = asyncio.Semaphore(self.max_concurrent) and one
\* poll_with_semaphore coroutine per entry of task_map
SemCall(max_concurrent, n) ==
    [pc |-> "gather", max_concurrent |-> max_concurrent, value |-> max_concurrent,
     polling_tasks |-> [t \in 1..n |-> "created"], poll_results |-> 0]

SemInit ==
    /\ IdleBatch
    /\ api = NoApi
    /\ poll = NoPoll
    /\ \E max_concurrent \in 1..MaxConcurrent, n \in 1..MaxTasks :
           sem = SemCall(max_concurrent, n)
    /\ call = NoCall

\* a task that starts its poll without waiting for a slot
Acquire_Unguarded(t) ==
    /\ sem.pc = "gather"
    /\ sem.polling_tasks[t] \in {"created", "waiting"}
    /\ sem' = [sem EXCEPT !.value = @ - 1, !.polling_tasks[t] = "polling"]

\* lines 549-550: `async with semaphore:` takes a slot when one is free and
\* _poll_task_result starts
Acquire(t) ==
    /\ sem.pc = "gather"
    /\ sem.polling_tasks[t] \in {"created", "waiting"}
    /\ sem.value > 0
    /\ sem' = [sem EXCEPT !.value = @ - 1, !.polling_tasks[t] = "polling"]

\* line 549: no slot is free, the task waits in semaphore.acquire()
Block(t) ==
    /\ sem.pc = "gather"
    /\ sem.polling_tasks[t] = "created"
    /\ sem.value = 0
    /\ sem' = [sem EXCEPT !.polling_tasks[t] = "waiting"]

\* lines 549-550: _poll_task_result has returned or raised; leaving the
\* block gives the slot back
Release(t) ==
    /\ sem.pc = "gather"
    /\ sem.polling_tasks[t] = "polling"
    /\ sem' = [sem EXCEPT !.value = @ + 1, !.polling_tasks[t] = "returned",
                          !.poll_results = @ + 1]

\* line 560: asyncio.gather returns once every task has ended
Gathered ==
    /\ sem.pc = "gather"
    /\ \A t \in DOMAIN sem.polling_tasks : sem.polling_tasks[t] = "returned"
    /\ sem' = [sem EXCEPT !.pc = "gathered"]

SemNext ==
    \/ \E t \in DOMAIN sem.polling_tasks : Acquire(t) /\ UNCHANGED <<batch_vars, api, poll, call>>
    \/ \E t \in DOMAIN sem.polling_tasks : Block(t) /\ UNCHANGED <<batch_vars, api, poll, call>>
    \/ \E t \in DOMAIN sem.polling_tasks : Release(t) /\ UNCHANGED <<batch_vars, api, poll, call>>
    \/ Gathered /\ UNCHANGED <<batch_vars, api, poll, call>>

SemSpec == SemInit /\ [][SemNext]_vars

\* C29: never more than max_concurrent task ids are polled at once, and a
\* task starts polling only in a state in which fewer than max_concurrent
\* are polling, that is, when all slots were taken, only after a polling
\* task has given its slot back.
C29_AtMostMaxConcurrentPolls ==
    [][/\ Cardinality(Polling(sem')) <= sem'.max_concurrent
       /\ \A t \in DOMAIN sem.polling_tasks :
              (sem.polling_tasks[t] # "polling" /\ sem'.polling_tasks[t] = "polling") =>
                  Cardinality(Polling(sem)) < sem.max_concurrent
      ]_vars

\* C29 witness: every slot is taken, a task waits, and one poll has ended
C29_Witness ==
    /\ sem.pc = "gather"
    /\ sem.max_concurrent = 2
    /\ Cardinality(Polling(sem)) = 2
    /\ \E t \in DOMAIN sem.polling_tasks : sem.polling_tasks[t] = "waiting"
    /\ sem.poll_results >= 1

----------------------------------------------------------------------------
(* Termination of the poll loop *)

\* every GET is answered or times out, so the loop always takes its next step
PollFairSpec == PollInit /\ [][PollNext]_vars /\ WF_vars(PollNext)

\* C30: for every sequence of responses and every configured poll_interval
\* the call returns; once the accumulated wait has reached the timeout it
\* has returned the polling-timeout record, without another GET.
C30_PollingTerminates ==
    /\ <>(poll.pc = "returned")
    /\ [](poll.waited >= Seconds(poll.cfg.timeout) =>
              /\ poll.pc = "returned"
              /\ poll.result.error = "Polling timeout: task did not complete")
    /\ [][poll'.pc = "returned" => poll'.polls = poll.polls]_vars

----------------------------------------------------------------------------
(* The delays of the poll loop *)

\* next is interval times num / 10, rounded down to the millisecond, or the
\* cap of 10 seconds when that is less
Multiplied(interval, next, num) ==
    \/ next = Seconds(10) /\ num * interval >= 10 * Seconds(10)
    \/ 10 * next <= num * interval /\ num * interval < 10 * (next + 1) /\ next <= Seconds(10)

\* C31: the first delay of a call is poll_interval seconds; the delay slept
\* after a response is the current one, and the next one is it times 1.2
\* after a not-ready response and times 1.5 after an error, capped at 10
\* seconds; no delay between two polls exceeds 10 seconds.
C31_BackoffDelays ==
    /\ [](poll.last.kind = "none" => poll.interval = Seconds(poll.cfg.poll_interval))
    /\ [][/\ Handled(NotReadyKinds) =>
                 /\ poll'.waited = poll.waited + poll.interval
                 /\ Multiplied(poll.interval, poll'.interval, 12)
          /\ (Handled(ErrorKinds) /\ poll'.consecutive_errors < max_consecutive_errors) =>
                 /\ poll'.waited = poll.waited + poll.interval
                 /\ Multiplied(poll.interval, poll'.interval, 15)
          /\ poll.pc = "polling" => poll'.waited - poll.waited <= Seconds(10)
         ]_vars

----------------------------------------------------------------------------
(* _extract_task_ids, applied to one submit response *)

MaxEntries == 2

\* the task id an entry carries, 0 when it carries none
EntryId(entry) ==
    IF ~entry.is_dict THEN entry.str
    ELSE IF entry.id # 0 THEN entry.id
    ELSE IF entry.task_id # 0 THEN entry.task_id
    ELSE entry.query_id

\* the url an entry names, 0 when it names none
EntryUrl(entry) ==
    IF ~entry.is_dict THEN 0
    ELSE IF entry.url # 0 THEN entry.url
    ELSE entry.query

\* the entries of the responses: objects with and without id and url, with
\* the alternative keys task_id / query and query_id, and a bare id string
ExtractEntries ==
    { [NoEntry EXCEPT !.id = i, !.url = u] : i \in 0..2, u \in 0..1 }
        \cup { [NoEntry EXCEPT !.task_id = 3, !.query = 2],
               [NoEntry EXCEPT !.query_id = 4],
               [NoEntry EXCEPT !.is_dict = FALSE, !.str = 5] }

\* lists of at most n entries in which no task id occurs twice
EntryLists(n) ==
    UNION { {l \in [1..k -> ExtractEntries] :
                \A i, j \in 1..k :
                    (i # j /\ EntryId(l[i]) # 0) => EntryId(l[i]) # EntryId(l[j])}
            : k \in 0..n }

\* the submit responses _extract_task_ids is applied to
ExtractInputs ==
    { [EmptyResponse EXCEPT !.has_queries = hq, !.queries = IF hq THEN q ELSE <<>>,
                            !.has_tasks = ht, !.tasks = IF ht THEN t ELSE <<>>,
                            !.id = id, !.has_url = hu, !.url = IF hu THEN u ELSE 0] :
          hq \in BOOLEAN, q \in EntryLists(MaxEntries),
          ht \in BOOLEAN, t \in EntryLists(1),
          id \in {0, 7}, hu \in BOOLEAN, u \in 0..1 }
        \cup { [EmptyResponse EXCEPT !.is_dict = FALSE, !.items = l] : l \in EntryLists(MaxEntries) }

ExtractInit ==
    /\ IdleBatch
    /\ api = NoApi
    /\ poll = NoPoll
    /\ sem = NoSem
    /\ \E batch_response \in ExtractInputs :
           call = [pc |-> "called", arg |-> batch_response, ret |-> <<>>]

\* line 529: task_map = self._extract_task_ids(batch_response)
ExtractReturns ==
    /\ call.pc = "called"
    /\ call' = [call EXCEPT !.pc = "returned", !.ret = _extract_task_ids(call.arg)]
    /\ UNCHANGED <<batch_vars, api, poll, sem>>

ExtractNext == ExtractReturns

ExtractSpec == ExtractInit /\ [][ExtractNext]_vars

\* the entries of the first applicable shape: queries, tasks, the single
\* top-level object, the bare list
ShapeEntries(r) ==
    IF ~r.is_dict THEN r.items
    ELSE IF r.has_queries THEN r.queries
    ELSE IF r.has_tasks THEN r.tasks
    ELSE IF r.id # 0 /\ r.has_url THEN <<[NoEntry EXCEPT !.id = r.id, !.url = r.url]>>
    ELSE <<>>

----------------------------------------------------------------------------
(* The static-tier verdict on the measures of a page.  A page is what the   *)
(* classifier measures of an html body: its length, whether html.parser     *)
(* parses it, the length of its text, its meaningful elements, the distinct *)
(* skeleton keywords in it and its div elements.  text_to_markup_ratio is   *)
(* in thousandths.                                                          *)

\* ContentAnalyzer.__init__: the defaults, and an analyzer with a ratio of 0.01
AnalyzerConfigs ==
    { [min_content_length |-> 1000, min_text_length |-> 200,
       min_meaningful_elements |-> 5, text_to_markup_ratio |-> 1],
      [min_content_length |-> 1000, min_text_length |-> 200,
       min_meaningful_elements |-> 5, text_to_markup_ratio |-> 10] }

\* html_content is None: the request failed
NoPage ==
    [is_none |-> TRUE, content_length |-> 0, parseable |-> TRUE, text_length |-> 0,
     meaningful_elements |-> 0, skeleton_count |-> 0, divs |-> 0]

PageSizes == {0, 999, 1000, 49999, 50000, 50001, 100000, 100001, 200000}
TextSizes == {0, 199, 200, 399, 400, 599, 600}

Pages ==
    {NoPage} \cup
    { p \in [is_none : {FALSE}, content_length : PageSizes, parseable : BOOLEAN,
             text_length : TextSizes, meaningful_elements : {4, 5},
             skeleton_count : {2, 3}, divs : {20, 21}] :
          p.text_length <= p.content_length }

StatusCodes == {0, 200, 399, 400, 404, 599, 600}

\* lines 107-126: is the page a skeleton on account of its text-to-markup ratio?
LowRatio(self, page) ==
    LET markup_length == page.content_length - page.text_length
        \* ratio < effective_threshold, both sides multiplied by 2000 * markup_length
        below == IF page.content_length > 100000
                 THEN 2000 * page.text_length < self.text_to_markup_ratio * markup_length
                 ELSE 1000 * page.text_length < self.text_to_markup_ratio * markup_length
    IN  markup_length > 0 /\ below /\ page.content_length < 50000

\* ContentAnalyzer.is_skeleton_content on the measures of html_content
PageIsSkeleton(self, page) ==
    IF page.content_length = 0 THEN TRUE
    ELSE IF page.content_length < self.min_content_length THEN TRUE
    ELSE IF ~page.parseable THEN FALSE
    ELSE IF page.text_length < self.min_text_length THEN TRUE
    ELSE IF page.meaningful_elements < self.min_meaningful_elements THEN TRUE
    ELSE IF LowRatio(self, page) THEN TRUE
    ELSE IF page.skeleton_count >= 3 /\ page.text_length < self.min_text_length * 2 THEN TRUE
    ELSE IF page.divs > 20 /\ page.text_length < self.min_text_length * 3 THEN TRUE
    ELSE FALSE

\* ContentAnalyzer.should_fallback on the measures of html_content
PageShouldFallback(self, page, status_code) ==
    IF is_blocked(status_code) THEN TRUE
    ELSE IF page.is_none THEN TRUE
    ELSE PageIsSkeleton(self, page)

ClassifyInit ==
    /\ IdleBatch
    /\ api = NoApi
    /\ poll = NoPoll
    /\ sem = NoSem
    /\ \E self \in AnalyzerConfigs, page \in Pages, status_code \in StatusCodes :
           call = [pc |-> "called",
                   arg |-> [self |-> self, page |-> page, status_code |-> status_code],
                   ret |-> FALSE]

\* should_fallback returns
ClassifyReturns ==
    /\ call.pc = "called"
    /\ call' = [call EXCEPT !.pc = "returned",
                            !.ret = PageShouldFallback(call.arg.self, call.arg.page,
                                                       call.arg.status_code)]
    /\ UNCHANGED <<batch_vars, api, poll, sem>>

ClassifyNext == ClassifyReturns

ClassifySpec == ClassifyInit /\ [][ClassifyNext]_vars

\* text_length / (html_length - text_length) is below ratio / 1000 * num / den
RatioBelow(page, ratio, num, den) ==
    /\ page.content_length - page.text_length > 0
    /\ 1000 * den * page.text_length < ratio * num * (page.content_length - page.text_length)

\* the ratio rule of the static-tier verdict as specified: text_to_markup_ratio
\* for pages of at most 50 KB, no check above
RatioRule(self, page) ==
    page.content_length <= 50000 /\ RatioBelow(page, self.text_to_markup_ratio, 1, 1)

\* the listed conditions other than the ratio rule
OtherConditions(self, page, status_code) ==
    \/ 400 <= status_code /\ status_code < 600
    \/ page.is_none \/ page.content_length = 0
    \/ page.content_length < self.min_content_length
    \/ page.parseable /\ page.text_length < self.min_text_length
    \/ page.parseable /\ page.meaningful_elements < self.min_meaningful_elements
    \/ page.parseable /\ page.skeleton_count >= 3 /\ page.text_length < 2 * self.min_text_length
    \/ page.parseable /\ page.divs > 20 /\ page.text_length < 3 * self.min_text_length

\* C33: should_fallback promotes exactly when at least one of the listed
\* conditions holds: blocked status, html absent or empty, html shorter than
\* min_content_length, text shorter than min_text_length, too few meaningful
\* elements, ratio below the effective ratio, three skeleton keywords with
\* little text, more than 20 divs with little text; a blocked status
\* promotes whatever the body.
C33_PromoteIffAnyCondition ==
    call.pc = "returned" =>
        /\ call.ret <=> (\/ OtherConditions(call.arg.self, call.arg.page, call.arg.status_code)
                         \/ call.arg.page.parseable /\ RatioRule(call.arg.self, call.arg.page))
        /\ is_blocked(call.arg.status_code) => call.ret

\* C34: where no other condition promotes it, a page of at most 50 KB, a
\* page of exactly 50 KB included, is promoted when its ratio is below
\* text_to_markup_ratio, and a page above 50 KB is not promoted, whatever
\* its ratio.
C34_RatioRuleBySize ==
    (/\ call.pc = "returned"
     /\ call.arg.page.parseable
     /\ ~OtherConditions(call.arg.self, call.arg.page, call.arg.status_code)) =>
        /\ (call.arg.page.content_length <= 50000
               /\ RatioBelow(call.arg.page, call.arg.self.text_to_markup_ratio, 1, 1))
              => call.ret
        /\ call.arg.page.content_length > 50000 => ~call.ret

----------------------------------------------------------------------------
(* The renderer-tier verdict and its whitelist *)

WhitelistInit ==
    /\ IdleBatch
    /\ api = NoApi
    /\ poll = NoPoll
    /\ sem = NoSem
    /\ \E html \in {Article, Loading, NoResults, "", None}, url \in 1..Len(URLTable) :
           call = [pc |-> "called", arg |-> [html |-> html, url |-> url], ret |-> FALSE]

\* is_custom_js_skeleton returns
WhitelistReturns ==
    /\ call.pc = "called"
    /\ call' = [call EXCEPT !.pc = "returned",
                            !.ret = is_custom_js_skeleton(call.arg.html, call.arg.url)]
    /\ UNCHANGED <<batch_vars, api, poll, sem>>

WhitelistNext == WhitelistReturns

WhitelistSpec == WhitelistInit /\ [][WhitelistNext]_vars

\* the host of URL id is a whitelisted domain or a subdomain of one
HostWhitelisted(id) ==
    \E k \in 1..Len(whitelisted_domains) : HostIn(id, whitelisted_domains[k])

\* C35: the whitelist is decided by the URL's host: a body returned for a
\* URL whose host matches a whitelisted domain is accepted, and a body for
\* a URL whose host matches none goes through the skeleton checks, also when
\* a whitelisted domain name occurs elsewhere in the URL.
C35_WhitelistByHost ==
    (call.pc = "returned" /\ Truthy(call.arg.html)) =>
        IF HostWhitelisted(call.arg.url)
        THEN call.ret = FALSE
        ELSE call.ret = (call.arg.html \in {Loading, NoResults})

----------------------------------------------------------------------------
(* The classifier thresholds of a batch configuration *)

\* BatchFetcherConfig.__init__ (lines 70-73, 161-165): the default thresholds,
\* and configurations that differ from them in one threshold
DefaultThresholds ==
    [min_content_length |-> 1000, min_text_length |-> 200,
     min_meaningful_elements |-> 5, text_to_markup_ratio |-> 1]

ThresholdConfigs ==
    { DefaultThresholds,
      [DefaultThresholds EXCEPT !.min_content_length = 50000],
      [DefaultThresholds EXCEPT !.min_text_length = 400],
      [DefaultThresholds EXCEPT !.min_meaningful_elements = 4],
      [DefaultThresholds EXCEPT !.text_to_markup_ratio = 10] }

\* the analyzer the tiers of a batch classify with: the static tier is built
\* from timeout, headers and max_concurrent (lines 109-113) and the renderer
\* tier's analyzer is ContentAnalyzer() (line 185); neither is given a
\* threshold of the configuration
batch_analyzer(cfg) ==
    [min_content_length |-> 1000, min_text_length |-> 200,
     min_meaningful_elements |-> 5, text_to_markup_ratio |-> 1]

ThresholdInit ==
    /\ IdleBatch
    /\ api = NoApi
    /\ poll = NoPoll
    /\ sem = NoSem
    /\ \E cfg \in ThresholdConfigs, page \in Pages, status_code \in {200} :
           call = [pc |-> "called",
                   arg |-> [config |-> cfg, page |-> page, status_code |-> status_code],
                   ret |-> FALSE]

\* the static tier of a batch run with call.arg.config classifies a response
BatchClassifies ==
    /\ call.pc = "called"
    /\ call' = [call EXCEPT !.pc = "returned",
                            !.ret = PageShouldFallback(batch_analyzer(call.arg.config),
                                                       call.arg.page, call.arg.status_code)]
    /\ UNCHANGED <<batch_vars, api, poll, sem>>

ThresholdNext == BatchClassifies

ThresholdSpec == ThresholdInit /\ [][ThresholdNext]_vars

\* C36: the verdict a batch gives on a response is the verdict of a
\* classifier with the four thresholds of the batch's configuration, so two
\* batches that differ in one threshold classify a body between the two
\* values differently.
C36_ThresholdsOfConfig ==
    call.pc = "returned" =>
        call.ret = PageShouldFallback(call.arg.config, call.arg.page, call.arg.status_code)

----------------------------------------------------------------------------
(* The skip list: its entries as configured, and the test of a URL *)

Https == <<"h", "t", "t", "p", "s", ":", "/", "/">>

\* skip-list entries as a caller writes them, each with the bare host it names
RawDomains ==
    { [text |-> Dom, host |-> Dom],
      [text |-> Https \o <<"W", "W", "W", ".", "D", ".", "i", "o", "/", "p">>, host |-> Dom],
      [text |-> <<"D", ".", "i", "o", "/", "p", "?", "q">>, host |-> Dom],
      [text |-> WwwDot \o Myg, host |-> Myg],
      [text |-> <<"y", "g", ".", "i", "n">>, host |-> <<"y", "g", ".", "i", "n">>] }

\* the skip lists of up to two entries
RawLists ==
    {<<>>} \cup {<<a>> : a \in RawDomains} \cup {<<a, b>> : a, b \in RawDomains}

SkipInit ==
    /\ IdleBatch
    /\ api = NoApi
    /\ poll = NoPoll
    /\ sem = NoSem
    /\ \E raw \in RawLists, url \in 1..Len(URLTable) :
           call = [pc |-> "raw", arg |-> [url |-> url, raw |-> raw, domains |-> <<>>],
                   ret |-> FALSE]

\* BatchFetcherConfig.__init__, line 145: the skip list is normalized
BuildConfig ==
    /\ call.pc = "raw"
    /\ call' = [call EXCEPT !.pc = "called",
                            !.arg.domains = _normalize_domain_list(Map(call.arg.raw,
                                                                       LAMBDA d : d.text))]
    /\ UNCHANGED <<batch_vars, api, poll, sem>>

\* _should_skip_custom_js(url, config.custom_js_skip_domains) returns
SkipReturns ==
    /\ call.pc = "called"
    /\ call' = [call EXCEPT !.pc = "returned",
                            !.ret = _should_skip_custom_js(call.arg.url, call.arg.domains)]
    /\ UNCHANGED <<batch_vars, api, poll, sem>>

SkipNext == BuildConfig \/ SkipReturns

SkipSpec == SkipInit /\ [][SkipNext]_vars

\* the entries of a configured skip list are the bare hosts of its entries
C37_Normalized ==
    call.pc # "raw" => call.arg.domains = Map(call.arg.raw, LAMBDA d : d.host)

\* C37: _should_skip_custom_js(url, domains) is true exactly when the URL's
\* host, lower-cased and without a leading "www.", is a domain of the list or
\* ends with "." and a domain of the list; and the entries of a skip list
\* written with a scheme, a path, "www." or upper case are the bare hosts
\* once the configuration is built.
C37_SkipTestByHost ==
    /\ C37_Normalized
    /\ call.pc = "returned" =>
           call.ret = \E k \in 1..Len(call.arg.domains) : HostIn(call.arg.url, call.arg.domains[k])

----------------------------------------------------------------------------
(* The pairing of tasks and input URLs *)

NoTaskId == "No task ID assigned for this URL"

\* the submit response has an entry that carries a task id and the url u
Paired(u) ==
    \E k \in 1..Len(ShapeEntries(decodo.batch_response)) :
        LET entry == ShapeEntries(decodo.batch_response)[k]
        IN  EntryId(entry) # 0 /\ EntryUrl(entry) = u

\* the submit response is a list of id strings
BareIdList ==
    /\ ~decodo.batch_response.is_dict
    /\ decodo.batch_response.items # <<>>
    /\ \A k \in 1..Len(decodo.batch_response.items) : ~decodo.batch_response.items[k].is_dict

\* process_urls has polled the tasks of task_map and returned
Polled == pc = "done" /\ task_map # <<>>

\* C38: the record of an input URL is the polled result of a task only if
\* the submit response paired a task id with that URL; when the response is
\* a bare list of id strings the ids are all in the polled task map and every
\* input URL is reported failed with "No task ID assigned for this URL".
C38_ResultOnlyForPairedUrl ==
    Polled =>
        /\ \A i \in 1..Len(phase3_results) :
               phase3_results[i].error # NoTaskId => Paired(decodo_urls[i])
        /\ BareIdList =>
               /\ Len(task_map) = Len(decodo.batch_response.items)
               /\ \A i \in 1..Len(phase3_results) :
                      /\ phase3_results[i].status = "failed"
                      /\ phase3_results[i].error = NoTaskId

\* C38 witness: two URLs submitted, the response a list of two id strings, both
\* tasks polled, and both URLs reported failed without a task id
C38_Witness ==
    /\ Polled
    /\ BareIdList
    /\ Len(decodo_urls) = 2
    /\ Len(task_map) = 2
    /\ \A i \in 1..Len(phase3_results) : phase3_results[i].error = NoTaskId

----------------------------------------------------------------------------
(* Batches that need no provider *)

\* the static tier or the renderer tier has accepted a body for URL u
Resolved(u) ==
    \/ \E i \in 1..Len(aggregator) :
           /\ aggregator[i].url = u
           /\ aggregator[i].method \in {"static", "xhr", "custom_js"}
           /\ aggregator[i].status = "success"
    \/ \E i \in 1..Len(custom_js_successful) : custom_js_successful[i].url = u

\* C39: once the static and the renderer tiers are through and have resolved
\* every URL of the batch, the batch has returned its report, the provider
\* client was never constructed and no provider request was made, whatever
\* the credentials of the environment.
C39_NoProviderWhenResolved ==
    (pc \notin {"start", "render"} /\ \A u \in Range(urls) : Resolved(u)) =>
        /\ pc = "done"
        /\ ~decodo.constructed
        /\ ~decodo.contacted
        /\ Len(Results) = Len(urls)

\* C39 witness: a batch with the provider enabled and no credentials at all
\* returned its report, one URL resolved by the static tier and one by the
\* renderer in its second round
C39_Witness ==
    /\ pc = "done"
    /\ config.decodo_enabled
    /\ ConstructorRaises(env)
    /\ \A u \in Range(urls) : Resolved(u)
    /\ \E i \in 1..Len(Results) : Results[i].method = "static"
    /\ \E i \in 1..Len(Results) : Results[i].method = "custom_js" /\ Results[i].status = "success"
    /\ attempt = 2

----------------------------------------------------------------------------
(* The gather of process_urls with the poll loop inside each slot *)

\* the configurations of the client: a poll_interval of 15 s and of 0 s
SlotConfigs == {cfg \in PollConfigs : cfg.timeout = 30 /\ cfg.poll_interval \in {0, 15}}

\* the responses to one GET: not ready, an error that is retried, a terminal one
SlotKinds == {"not_ready", "processing", "server_error", "done"}

\* lines 238-244: the locals of a _poll_task_result call
SlotLocals(cfg) ==
    [waited |-> 0, interval |-> Seconds(cfg.poll_interval), consecutive_errors |-> 0]

\* lines 546-557 with the client's configuration
GatherCall(cfg, max_concurrent, n) ==
    [pc |-> "gather", max_concurrent |-> max_concurrent, value |-> max_concurrent,
     polling_tasks |-> [t \in 1..n |-> "created"], poll_results |-> 0,
     cfg |-> cfg, locals |-> [t \in 1..n |-> SlotLocals(cfg)]]

GatherInit ==
    /\ IdleBatch
    /\ api = NoApi
    /\ poll = NoPoll
    /\ \E cfg \in SlotConfigs, max_concurrent \in 1..MaxConcurrent, n \in 1..MaxTasks :
           sem = GatherCall(cfg, max_concurrent, n)
    /\ call = NoCall

\* lines 549-550 and 472: _poll_task_result returns its record, the block is
\* left and the slot given back
Returns(s, t) ==
    [s EXCEPT !.value = @ + 1, !.polling_tasks[t] = "returned", !.poll_results = @ + 1,
              !.locals[t] = SlotLocals(s.cfg)]

\* lines 246-263, 279-282: after the sleep, the loop test
Sleeps(s, t, next_interval, errors) ==
    IF s.locals[t].waited + s.locals[t].interval < Seconds(s.cfg.timeout)
    THEN [s EXCEPT !.locals[t] = [waited |-> @.waited + @.interval,
                                  interval |-> next_interval,
                                  consecutive_errors |-> errors]]
    ELSE Returns(s, t)

\* lines 247-463: the task that holds a slot gets the response to a GET
PollInSlot(t, kind) ==
    /\ sem.pc = "gather"
    /\ sem.polling_tasks[t] = "polling"
    /\ sem' = IF kind \in NotReadyKinds
              THEN Sleeps(sem, t, SlowBackoff(sem.locals[t].interval), 0)
              ELSE IF kind \in ErrorKinds
              THEN IF BudgetSpent(sem.locals[t].consecutive_errors + 1)
                   THEN Returns(sem, t)
                   ELSE Sleeps(sem, t, FastBackoff(sem.locals[t].interval),
                               sem.locals[t].consecutive_errors + 1)
              ELSE Returns(sem, t)

GatherNext ==
    \/ \E t \in DOMAIN sem.polling_tasks : Acquire(t) /\ UNCHANGED <<batch_vars, api, poll, call>>
    \/ \E t \in DOMAIN sem.polling_tasks : Block(t) /\ UNCHANGED <<batch_vars, api, poll, call>>
    \/ \E t \in DOMAIN sem.polling_tasks, kind \in SlotKinds :
           PollInSlot(t, kind) /\ UNCHANGED <<batch_vars, api, poll, call>>
    \/ Gathered /\ UNCHANGED <<batch_vars, api, poll, call>>

\* every GET is answered or times out and the event loop runs every task that
\* can run, so some step is always taken
GatherFairSpec == GatherInit /\ [][GatherNext]_vars /\ WF_vars(GatherNext)

\* C40: with more task ids than max_concurrent, every task is eventually
\* polled to its record and process_urls gets past the gather; a poll that
\* ends gives its slot back, so that all slots are free at the end.
C40_EveryTaskPolled ==
    /\ (Len(sem.polling_tasks) > sem.max_concurrent) => <>(sem.pc = "gathered")
    /\ [](sem.pc = "gathered" =>
              /\ sem.value = sem.max_concurrent
              /\ \A t \in DOMAIN sem.polling_tasks : sem.polling_tasks[t] = "returned")
    /\ [][\A t \in DOMAIN sem.polling_tasks :
              (sem.polling_tasks[t] = "polling" /\ sem'.polling_tasks[t] # "polling") =>
                  sem'.value = sem.value + 1]_vars

====
